---- MODULE Spec2Model ----
(***************************************************************************)
(* Micromegas Unreal telemetry: the Dispatch coordinator (Dispatch.cpp),   *)
(* the event streams and blocks it rotates (EventStream.h, EventBlock.h),  *)
(* and the HTTP sink it hands sealed blocks to (HttpEventSink.cpp).        *)
(*                                                                         *)
(* Every thread is a stack of frames.  A frame is the activation of one    *)
(* function of the source and its pc names the statement it is about to    *)
(* execute.  One action of the model executes the statements of one        *)
(* function up to and including its next access to shared state or its     *)
(* next call.                                                              *)
(***************************************************************************)
EXTENDS Naturals, Integers, Sequences, FiniteSets, TLC

\* ------------------------------------------------------------------ bounds
\* API calls the application thread makes when it runs alone
MaxOps == 4
\* API calls the first and the second thread make when they run together
MainOps == 3
OtherOps == 2
\* API calls the application thread makes while the FlushMonitor runs, and the times
\* the flush period elapses
TickMainOps == 3
TickOps == 1
\* events that fill a log / metric / thread block up to its threshold
LogBlockEvents == 2
MetricBlockEvents == 4
ThreadBlockEvents == 6
\* events more that fill a block of the larger buffers
MoreEvents == 1
\* FNames that contexts are made of, and the property sets the store grows to
NbNames == 2
MaxSets == 5
MaxBatch == 2
\* API calls of the application thread while the worker runs
SinkOps == 1
HttpOps == 1
\* requests whose completions are followed, and the attempts followed for each
MaxCompleted == 1
MaxAttempts == 3
\* API calls of the first and of the second thread when both shut down
ShutdownMainOps == 2
StopOps == 2
ShutdownOtherOps == 3
\* events pushed into the queues
MaxPush == 3
\* bytes of the message of a log entry
MsgBytes == 14
\* API calls the application thread makes while the FlushMonitor is ticked, the
\* times it is ticked, and the flush period in units of the clock
PeriodMainOps == 2
PeriodTicks == 2
FlushPeriod == 8

\* ------------------------------------------------------- program constants
\* EventStreamImpl<LogBlock, 1024>, <MetricBlock, 128>, <ThreadBlock, 128>
LogPadding == 1024
MetricPadding == 128
ThreadPadding == 128
\* 1 discriminant byte + sizeof(TaggedIntegerMetricEvent)
MetricEventSize == 33
\* 1 discriminant byte + sizeof(BeginThreadSpanEvent)
SpanEventSize == 17
\* 1 discriminant + 4 length prefix + 24 (desc, properties, time) + 5 (string header)
LogEventHeader == 34

AppThreads == {1, 2}
Sinks == {1}
\* the worker thread that HttpEventSink's constructor starts for sink k
Worker(k) == Cardinality(AppThreads) + k
Threads == 1 .. (Cardinality(AppThreads) + Cardinality(Sinks))
NoThread == 0
Kinds == {"log", "metric", "thread"}

VARIABLES
    GDispatch,   \* the global Dispatch*: 0 is nullptr, else an index of dispatch
    dispatch,    \* every Dispatch object ever constructed (never deleted)
    streams,     \* every EventStreamImpl object
    blocks,      \* every EventBlock object
    sinks,       \* the HttpEventSink objects
    tls,         \* the thread_local variables of GetCurrentThreadStream
    stack,       \* the call stack of each thread
    nev,         \* events constructed so far by each thread
    opsLeft,     \* API calls each application thread may still make
    called,      \* the API calls each thread has made, as the frames they pushed
    clock,       \* the value the next DualTime::Now() returns
    PropertySets, \* the elements of PropertySetStore::PropertySets, in the order added
    queues,      \* a HeterogeneousQueue of each kind of event: Buffer and NbEvents
    pushed,      \* the events pushed into each of these queues, in push order
    TheContext,  \* DefaultContext::Context, a TMap: its sparse array and its free list
    CurrentPropertySet, \* DefaultContext::CurrentPropertySet: 0 is nullptr, else an index
    AuthReady,   \* what Auth->IsReady() returns, for the authenticator of each sink
    executed,    \* the work items the worker of each sink has executed, in order
    http         \* the HTTP requests created so far, with what became of each

\* the DefaultContext object
ctx == <<TheContext, CurrentPropertySet>>

\* the objects the Dispatch only passes around: the property set store and the queues
\* the authenticator, the worker's history and the HTTP module
net == <<AuthReady, executed, http>>

lib == <<PropertySets, queues, pushed, ctx, net>>

vars == <<GDispatch, dispatch, streams, blocks, sinks, tls, stack, nev, opsLeft, called, clock,
          lib>>

\* ------------------------------------------------------------------ frames
\* the frame of thread th at statement pc: the Dispatch d, the stream s, the block b,
\* the kind of stream k and the sink sk the activation works on
F(th, pc, d, s, b, k, sk) ==
    [th |-> th, pc |-> pc, d |-> d, s |-> s, b |-> b, k |-> k, sk |-> sk]
Idle(t) == stack[t] = <<>>
Top(t) == stack[t][Len(stack[t])]
At(t, pc) == ~Idle(t) /\ Top(t).pc = pc
Ret(t) == [stack EXCEPT ![t] = SubSeq(@, 1, Len(@) - 1)]
Goto(t, pc) == [stack EXCEPT ![t][Len(stack[t])].pc = pc]
Become(t, f) == [stack EXCEPT ![t][Len(stack[t])] = f]
Call(t, retpc, f) == [stack EXCEPT ![t] = Append([@ EXCEPT ![Len(@)].pc = retpc], f)]

\* ------------------------------------------------ EventStream / EventBlock
\* size_t FullThreshold: unsigned arithmetic wraps; the width is 30 bits here
SizeModulus == 1073741824

Padding(k) == CASE k = "log" -> LogPadding [] k = "metric" -> MetricPadding [] OTHER -> ThreadPadding

LogEventSize == LogEventHeader + MsgBytes

EventSize(k) == CASE k = "log" -> LogEventSize [] k = "metric" -> MetricEventSize [] OTHER -> SpanEventSize

\* buffer sizes one byte short of each stream's padding
BufferSizesNoRoom(n) ==
    [log |-> LogPadding - 1, metric |-> MetricPadding - 1, thread |-> ThreadPadding - 1]

\* the buffer sizes passed to Dispatch::Init: blocks that n more events fill
BufferSizes(n) ==
    [log |-> LogPadding + (LogBlockEvents + n) * LogEventSize,
     metric |-> MetricPadding + (MetricBlockEvents + n) * MetricEventSize,
     thread |-> ThreadPadding + (ThreadBlockEvents + n) * SpanEventSize]


\* EventBlock(streamId, begin, bufferSize, offset)
NewBlock(s, begin, bufferSize, offset) ==
    [Stream |-> s, Begin |-> begin, End |-> 0, Capacity |-> bufferSize,
     ObjectOffset |-> offset, NbEvents |-> 0, SizeBytes |-> 0, Events |-> <<>>,
     Closes |-> 0]

\* EventStreamImpl(processId, streamId, block, tags)
NewStream(k, b, capacity, owner) ==
    [kind |-> k, CurrentBlock |-> b, FullThreshold |-> (capacity - Padding(k)) % SizeModulus, owner |-> owner]

\* HeterogeneousQueue::Push on the queue of block b
Push(bl, b, ev, size) ==
    [bl EXCEPT ![b].NbEvents = @ + 1,
               ![b].SizeBytes = @ + size,
               ![b].Events = Append(@, ev)]

\* an emptiness test that never answers yes
IsEmptyNever(b) == FALSE

\* EventBlock::IsEmpty
IsEmpty(b) == blocks[b].NbEvents = 0

\* the first block stream s has held
GetFirstBlock(s) == CHOOSE b \in DOMAIN blocks : blocks[b].Stream = s /\ \A c \in 1 .. (b - 1) : blocks[c].Stream # s

\* EventStreamImpl::GetCurrentBlock
GetCurrentBlock(s) == streams[s].CurrentBlock

\* EventStreamImpl::IsFull, on the blocks bl
IsFull(bl, s) == bl[streams[s].CurrentBlock].SizeBytes >= streams[s].FullThreshold

\* a SwapBlocks that leaves the threshold as it finds it
SwapBlocksKeepsThreshold(s, newBlock, capacity) ==
    [streams EXCEPT ![s].CurrentBlock = newBlock]

\* EventStreamImpl::SwapBlocks
SwapBlocks(s, newBlock, capacity) ==
    [streams EXCEPT ![s].CurrentBlock = newBlock,
                    ![s].FullThreshold = (capacity - Padding(streams[s].kind)) % SizeModulus]

\* EventStreamImpl::MarkFull
MarkFull(stream) == [stream EXCEPT !.FullThreshold = 0]

\* a Close that leaves the block open
CloseNot(bl, b, end) == bl

\* EventBlock::Close
Close(bl, b, end) == [bl EXCEPT ![b].End = end, ![b].Closes = @ + 1]

BufferSize(d, k) ==
    CASE k = "log" -> dispatch[d].LogBufferSize
      [] k = "metric" -> dispatch[d].MetricBufferSize
      [] OTHER -> dispatch[d].ThreadBufferSize

\* the seal / close / offset / swap sequence shared by FlushLogStreamImpl,
\* FlushMetricStreamImpl and FlushThreadStream: the stream table and the block
\* table after stream s of dispatch d has been rotated at time clock
\* the offset of the new block, the events of the sealed block forgotten
NewOffsetStale(s) == blocks[streams[s].CurrentBlock].ObjectOffset

NewOffset(s) ==
    blocks[streams[s].CurrentBlock].ObjectOffset + blocks[streams[s].CurrentBlock].NbEvents

\* the block SwapBlocks is left holding: the new block, not the one swapped out
FullBlockCurrent(s) == Len(blocks) + 1

\* FullBlock = Stream->SwapBlocks(NewBlock): the block that was current
FullBlock(s) == streams[s].CurrentBlock

RotatedStreams(d, s) ==
    SwapBlocks(s, Len(blocks) + 1, BufferSize(d, streams[s].kind))

RotatedBlocks(d, s) ==
    Close(Append(blocks, NewBlock(s, clock, BufferSize(d, streams[s].kind), NewOffset(s))),
          FullBlock(s), clock)

\* ------------------------------------------------------------ HttpEventSink
\* the console variables of the sampling controller: telemetry.log.enable,
\* telemetry.metrics.enable, and whether the spans of a thread block are sampled
Sampling(log, metric, thread) == [log |-> log, metric |-> metric, thread |-> thread]

NewSink(sampling) ==
    [Queue |-> <<>>, QueueSize |-> 0, RequestShutdown |-> FALSE, Finished |-> FALSE,
     LastFlush |-> 0, Sampling |-> sampling, calls |-> <<>>]

\* an invocation of EventSink method m with argument a by thread t
Invoke(sk, k, m, a, t) ==
    [sk EXCEPT ![k].calls = Append(@, [m |-> m, a |-> a, t |-> t])]

Enqueue(sk, k, item, a) ==
    [sk EXCEPT ![k].Queue = Append(@, [item |-> item, a |-> a])]

\* the process before Dispatch::Init: thread t may make ops[t] API calls
Start(ops, samplings) ==
    /\ GDispatch = 0
    /\ dispatch = <<>>
    /\ streams = <<>>
    /\ blocks = <<>>
    /\ \E sampling \in samplings : sinks = [k \in Sinks |-> NewSink(sampling)]
    /\ tls = [t \in Threads |-> [Ptr |-> 0, ThisStreamBeingInit |-> FALSE]]
    /\ stack = [t \in Threads |-> IF t \in AppThreads THEN <<>>
                                   ELSE <<F(t, "Run", 0, 0, 0, "", t - Cardinality(AppThreads))>>]
    /\ nev = [t \in Threads |-> 0]
    /\ opsLeft = [t \in Threads |-> IF t \in DOMAIN ops THEN ops[t] ELSE 0]
    /\ called = [t \in Threads |-> <<>>]
    /\ clock = 1
    /\ PropertySets = <<>>
    /\ queues = [k \in Kinds |-> [Buffer |-> <<>>, NbEvents |-> 0]]
    /\ pushed = [k \in Kinds |-> <<>>]
    /\ TheContext = [Slots |-> <<>>, Free |-> <<>>]
    /\ CurrentPropertySet = 0
    /\ AuthReady = [k \in Sinks |-> FALSE]
    /\ executed = [k \in Sinks |-> <<>>]
    /\ http = <<>>

\* --------------------------------------------------------------- scheduling
\* Dispatch::Init has run and has returned
Initialized ==
    /\ GDispatch # 0
    /\ \A t \in AppThreads : \A i \in DOMAIN stack[t] : stack[t][i].pc \notin {"Init_log", "Init_metric", "Init_end"}

\* The next step of thread u reads and writes nothing that another thread reads
\* or writes: its own stack, its thread_local variables and the block of its own
\* thread stream.  Such a step commutes with every step of the other threads.
LocalPcs == {"FlushImpl", "FlushImpl_end", "FlushImpl_return", "FTS_return", "GCTS_assign", "OnStartup_inc", "OnInitStream",
             "OnProcessBlock", "OPB_span", "OPB_sample", "OPB_inc", "OPB_end", "Init_end",
             "Run_exec", "Run_format", "Send", "Run_wait"}

\* a worker thread may still run ForEachThreadStream(&MarkStreamFull), which writes
\* the threshold of the thread streams of the other threads
Sweeper ==
    \E w \in Threads \ AppThreads :
        \/ opsLeft[w] > 0
        \/ \E i \in DOMAIN stack[w] : stack[w][i].pc \in {"FM_log", "FM_metric", "FM_mark"}

Local(u) ==
    IF Idle(u) THEN u \in AppThreads /\ opsLeft[u] > 0 /\ Initialized
    ELSE \/ Top(u).pc \in LocalPcs
         \/ Top(u).pc = "QTE_push" /\ ~Sweeper
         \/ Top(u).pc = "QueueThreadEvent" /\ tls[u].Ptr # 0 /\ ~Sweeper

\* thread t is scheduled: a thread runs its local steps as soon as it can (the
\* first such thread when there are several), so that interleavings that differ
\* in the order of commuting steps are explored once
Scheduled(t) == \A u \in Threads : Local(u) => (Local(t) /\ t <= u)

\* thread t is scheduled and about to execute the statement pc
Runs(t, pc) == At(t, pc) /\ Scheduled(t)

\* -------------------------------------------------------------- application
\* the frame of an API call: entry point pc on the stream kind k; Dispatch::Init
\* takes the sink sk and buffer sizes that leave room for n more events
ApiFrame(t, pc, k, sk, n) ==
    F(t, pc, 0, 0, IF pc = "Init" THEN BufferSizes(n) ELSE 0, k, sk)

\* the application calls an entry point of the API: its frame is pushed
ApiCall(t, pc, k, sk, n) ==
    /\ Idle(t)
    /\ opsLeft[t] > 0
    /\ Scheduled(t)
    /\ opsLeft' = [opsLeft EXCEPT ![t] = @ - 1]
    /\ called' = [called EXCEPT ![t] = Append(@, ApiFrame(t, pc, k, sk, n))]
    /\ stack' = [stack EXCEPT ![t] = <<ApiFrame(t, pc, k, sk, n)>>]
    /\ UNCHANGED <<GDispatch, dispatch, streams, blocks, sinks, tls, nev, clock, lib>>

\* Dispatch::Init(sink, processInfo, logBufferSize, metricBufferSize, threadBufferSize)
CallInit(t) == \E k \in Sinks : ApiCall(t, "Init", "", k, 0)
CallInitLarge(t) == \E k \in Sinks : ApiCall(t, "Init", "", k, MoreEvents)
CallLog(t) == ApiCall(t, "Log", "log", 0, 0)
CallIntMetric(t) == ApiCall(t, "IntMetric", "metric", 0, 0)
CallBeginScope(t) == ApiCall(t, "QueueThreadEvent", "thread", 0, 0)
CallFlushLogStream(t) == ApiCall(t, "FlushStream", "log", 0, 0)
CallFlushMetricStream(t) == ApiCall(t, "FlushStream", "metric", 0, 0)
CallFlushCurrentThreadStream(t) == ApiCall(t, "FlushCurrentThreadStream", "thread", 0, 0)

\* ------------------------------------------------------------------ Dispatch
Mutex(d, k) == IF k = "log" THEN dispatch[d].LogMutex ELSE dispatch[d].MetricMutex
StreamOf(d, k) == IF k = "log" THEN dispatch[d].LogEntries ELSE dispatch[d].Metrics

\* a mutex whose Unlock() does nothing
SetMutexNoUnlock(d, k, v) ==
    IF v = NoThread THEN dispatch
    ELSE IF k = "log" THEN [dispatch EXCEPT ![d].LogMutex = v]
                      ELSE [dispatch EXCEPT ![d].MetricMutex = v]

SetMutex(d, k, v) ==
    IF k = "log" THEN [dispatch EXCEPT ![d].LogMutex = v]
                 ELSE [dispatch EXCEPT ![d].MetricMutex = v]

ProcessBlockMethod(k) ==
    CASE k = "log" -> "OnProcessLogBlock"
      [] k = "metric" -> "OnProcessMetricBlock"
      [] OTHER -> "OnProcessThreadBlock"

\* a span event (BeginScope or EndScope of a span guard) is queued, then the
\* calling frame goes on at retpc
SpanEvent(t, retpc) == Call(t, retpc, F(t, "QueueThreadEvent", 0, 0, 0, "thread", 0))

\* the span guard of the function is destroyed and the function returns
SpanEventReturn(t) == Become(t, F(t, "QueueThreadEvent", 0, 0, 0, "thread", 0))

\* Dispatch::Dispatch: the object, its two streams and their first blocks
NewDispatch(sk, ls, ms, sizes) ==
    [Sink |-> sk, LogEntries |-> ls, Metrics |-> ms, ThreadStreams |-> <<>>,
     LogBufferSize |-> sizes.log, MetricBufferSize |-> sizes.metric,
     ThreadBufferSize |-> sizes.thread,
     LogMutex |-> NoThread, MetricMutex |-> NoThread]

\* a test of GDispatch that never finds a dispatch
HasDispatchNever == FALSE

\* Dispatch::Init: if (GDispatch)
HasDispatch == GDispatch # 0

\* Dispatch::Init up to the call of Sink->OnStartup
DispatchInit(t) ==
    /\ Runs(t, "Init")
    /\ IF HasDispatch
       THEN /\ stack' = Ret(t)
            /\ UNCHANGED <<GDispatch, dispatch, streams, blocks, sinks, clock, lib>>
       ELSE LET d == Len(dispatch) + 1
                ls == Len(streams) + 1
                ms == Len(streams) + 2
                lb == Len(blocks) + 1
                mb == Len(blocks) + 2
                sk == Top(t).sk
                sizes == Top(t).b
            IN /\ dispatch' = Append(dispatch, NewDispatch(sk, ls, ms, sizes))
               /\ streams' = streams \o <<NewStream("log", lb, sizes.log, NoThread),
                                            NewStream("metric", mb, sizes.metric, NoThread)>>
               /\ blocks' = blocks \o <<NewBlock(ls, clock, sizes.log, 0),
                                          NewBlock(ms, clock, sizes.metric, 0)>>
               /\ clock' = clock + 1
               /\ GDispatch' = d
               /\ sinks' = Invoke(sinks, sk, "OnStartup", 0, t)
               /\ stack' = Call(t, "Init_log", F(t, "OnStartup", 0, 0, 0, "", sk))
    /\ UNCHANGED <<tls, nev, opsLeft, called, lib>>

\* Sink->OnInitLogStream(GDispatch->LogEntries), Sink->OnInitMetricStream(GDispatch->Metrics):
\* GDispatch is read again; a null GDispatch is a null dereference and the thread stops
DispatchInitStream(t, k) ==
    /\ Runs(t, IF k = "log" THEN "Init_log" ELSE "Init_metric")
    /\ IF GDispatch = 0
       THEN /\ stack' = [stack EXCEPT ![t] = <<F(t, "crashed", 0, 0, 0, "", 0)>>]
            /\ UNCHANGED sinks
       ELSE LET sk == Top(t).sk
                s == StreamOf(GDispatch, k)
                callee == F(t, "OnInitStream", GDispatch, s, 0, k, sk)
            IN /\ sinks' = Invoke(sinks, sk, IF k = "log" THEN "OnInitLogStream" ELSE "OnInitMetricStream", s, t)
               /\ stack' = Call(t, IF k = "log" THEN "Init_metric" ELSE "Init_end", callee)
    /\ UNCHANGED <<GDispatch, dispatch, streams, blocks, tls, nev, opsLeft, called, clock, lib>>

\* Dispatch::Init returns
DispatchInitEnd(t) ==
    /\ Runs(t, "Init_end")
    /\ stack' = Ret(t)
    /\ UNCHANGED <<GDispatch, dispatch, streams, blocks, sinks, tls, nev, opsLeft, called, clock, lib>>

DispatchInitLogStream(t) == DispatchInitStream(t, "log")
DispatchInitMetricStream(t) == DispatchInitStream(t, "metric")

\* the Dispatch constructed last, whether or not it was shut down since
LastDispatch == Len(dispatch)

\* Dispatch* Dispatch = GDispatch, in the log and metric entry points
CurrentDispatch == GDispatch

\* Dispatch::LogInterop, Dispatch::Log, Dispatch::IntMetric, Dispatch::FloatMetric:
\* the read of GDispatch
EmitEntry(t, k) ==
    /\ Runs(t, IF k = "log" THEN "Log" ELSE "IntMetric")
    /\ stack' = IF CurrentDispatch = 0 THEN Ret(t)
                ELSE Become(t, F(t, "QueueEvent", CurrentDispatch, StreamOf(CurrentDispatch, k), 0, k, 0))
    /\ UNCHANGED <<GDispatch, dispatch, streams, blocks, sinks, tls, nev, opsLeft, called, clock, lib>>

Log(t) == EmitEntry(t, "log")
IntMetric(t) == EmitEntry(t, "metric")

\* Dispatch::QueueLogEntry, Dispatch::QueueMetric: Mutex.Lock()
QueueEventLock(t) ==
    /\ Runs(t, "QueueEvent")
    /\ Mutex(Top(t).d, Top(t).k) = NoThread
    /\ dispatch' = SetMutex(Top(t).d, Top(t).k, t)
    /\ stack' = Goto(t, "QueueEvent_push")
    /\ UNCHANGED <<GDispatch, streams, blocks, sinks, tls, nev, opsLeft, called, clock, lib>>

\* Dispatch::QueueLogEntry, Dispatch::QueueMetric: push, then unlock unless the
\* stream is full; when it is, Flush*StreamImpl is entered with the mutex held
QueueEvent(t, k) ==
    /\ Runs(t, "QueueEvent_push")
    /\ Top(t).k = k
    /\ LET d == Top(t).d
           s == Top(t).s
           bl == Push(blocks, GetCurrentBlock(s), <<t, nev[t] + 1>>, EventSize(k))
       IN /\ blocks' = bl
          /\ nev' = [nev EXCEPT ![t] = @ + 1]
          /\ IF IsFull(bl, s)
             THEN /\ dispatch' = dispatch
                  /\ stack' = Become(t, F(t, "FlushImpl", d, s, 0, k, 0))
             ELSE /\ dispatch' = SetMutex(d, k, NoThread)
                  /\ stack' = Ret(t)
    /\ UNCHANGED <<GDispatch, streams, sinks, tls, opsLeft, called, clock, lib>>

QueueLogEntry(t) == QueueEvent(t, "log")
QueueMetric(t) == QueueEvent(t, "metric")

\* Dispatch::FlushLogStream, Dispatch::FlushMetricStream: the read of GDispatch
FlushStream(t) ==
    /\ Runs(t, "FlushStream")
    /\ stack' = IF CurrentDispatch = 0 THEN Ret(t)
                ELSE Become(t, [Top(t) EXCEPT !.pc = "FlushStream_lock", !.d = CurrentDispatch,
                                              !.s = StreamOf(CurrentDispatch, Top(t).k)])
    /\ UNCHANGED <<GDispatch, dispatch, streams, blocks, sinks, tls, nev, opsLeft, called, clock, lib>>

\* Dispatch->LogMutex.Lock(), Dispatch->MetricMutex.Lock()
FlushStreamLock(t) ==
    /\ Runs(t, "FlushStream_lock")
    /\ Mutex(Top(t).d, Top(t).k) = NoThread
    /\ dispatch' = SetMutex(Top(t).d, Top(t).k, t)
    /\ stack' = Goto(t, "FlushImpl")
    /\ UNCHANGED <<GDispatch, streams, blocks, sinks, tls, nev, opsLeft, called, clock, lib>>

\* Flush*StreamImpl: MICROMEGAS_SPAN_FUNCTION, the constructor of the span guard
FlushImplSpan(t) ==
    /\ Runs(t, "FlushImpl")
    /\ stack' = SpanEvent(t, "FlushImpl_body")
    /\ UNCHANGED <<GDispatch, dispatch, streams, blocks, sinks, tls, nev, opsLeft, called, clock, lib>>

\* Flush*StreamImpl from IsEmpty() to the call of Sink->OnProcess*Block
FlushImplBody(t) ==
    /\ Runs(t, "FlushImpl_body")
    /\ LET d == Top(t).d
           s == Top(t).s
           k == Top(t).k
           full == FullBlock(s)
       IN IF IsEmpty(GetCurrentBlock(s))
          THEN /\ dispatch' = SetMutex(d, k, NoThread)
               /\ stack' = Goto(t, "FlushImpl_return")
               /\ UNCHANGED <<streams, blocks, sinks, clock, lib>>
          ELSE /\ blocks' = RotatedBlocks(d, s)
               /\ streams' = RotatedStreams(d, s)
               /\ clock' = clock + 1
               /\ dispatch' = SetMutex(d, k, NoThread)
               /\ sinks' = Invoke(sinks, dispatch[d].Sink, ProcessBlockMethod(k), full, t)
               /\ stack' = Call(t, "FlushImpl_end", F(t, "OnProcessBlock", d, s, full, k, dispatch[d].Sink))
    /\ UNCHANGED <<GDispatch, tls, nev, opsLeft, called, lib>>

\* Flush*StreamImpl: the return on an empty block, the destructor of the span guard
FlushImplReturn(t) ==
    /\ Runs(t, "FlushImpl_return")
    /\ stack' = SpanEventReturn(t)
    /\ UNCHANGED <<GDispatch, dispatch, streams, blocks, sinks, tls, nev, opsLeft, called, clock, lib>>

\* Flush*StreamImpl: the destructor of the span guard
FlushImplEnd(t) ==
    /\ Runs(t, "FlushImpl_end")
    /\ stack' = SpanEventReturn(t)
    /\ UNCHANGED <<GDispatch, dispatch, streams, blocks, sinks, tls, nev, opsLeft, called, clock, lib>>

\* a GetCurrentThreadStream without its ThisStreamBeingInit guard
GCTSCreatesReentrant(t) == tls[t].Ptr = 0 /\ GDispatch # 0

\* Dispatch::GetCurrentThreadStream creates a stream: no cached Ptr, a dispatch, no
\* creation in progress on this thread
GCTSCreates(t) == tls[t].Ptr = 0 /\ GDispatch # 0 /\ ~tls[t].ThisStreamBeingInit

\* Dispatch::GetCurrentThreadStream up to AllocThreadStream included; the calling
\* frame resumes as frame caller once the stream is published
AllocThreadStream(t, caller) ==
    /\ tls' = [tls EXCEPT ![t].ThisStreamBeingInit = TRUE]
    /\ streams' = Append(streams, NewStream("thread", Len(blocks) + 1,
                                            dispatch[GDispatch].ThreadBufferSize, t))
    /\ blocks' = Append(blocks, NewBlock(Len(streams) + 1, clock,
                                         dispatch[GDispatch].ThreadBufferSize, 0))
    /\ clock' = clock + 1
    /\ stack' = [stack EXCEPT ![t] =
                    Append([@ EXCEPT ![Len(@)] = caller],
                           F(t, "PublishThreadStream", GDispatch, Len(streams) + 1, 0, "thread", 0))]

\* Dispatch::PublishThreadStream
PublishThreadStream(t) ==
    /\ Runs(t, "PublishThreadStream")
    /\ LET d == Top(t).d
           s == Top(t).s
       IN /\ dispatch' = [dispatch EXCEPT ![d].ThreadStreams = Append(@, s)]
          /\ sinks' = Invoke(sinks, dispatch[d].Sink, "OnInitThreadStream", s, t)
          /\ stack' = Call(t, "GCTS_assign", F(t, "OnInitStream", d, s, 0, "thread", dispatch[d].Sink))
    /\ UNCHANGED <<GDispatch, streams, blocks, tls, nev, opsLeft, called, clock, lib>>

\* Ptr = NewStream; return Ptr
AssignThreadStream(t) ==
    /\ Runs(t, "GCTS_assign")
    /\ tls' = [tls EXCEPT ![t].Ptr = Top(t).s]
    /\ stack' = [stack EXCEPT ![t] =
                    [SubSeq(@, 1, Len(@) - 1) EXCEPT ![Len(@) - 1].s = Top(t).s]]
    /\ UNCHANGED <<GDispatch, dispatch, streams, blocks, sinks, nev, opsLeft, called, clock, lib>>

\* Dispatch::FlushThreadStream(Stream) of dispatch d, in a frame that returns after it
FlushThreadStream(t, d, s) ==
    LET full == FullBlock(s)
    IN IF IsEmpty(GetCurrentBlock(s))
       THEN /\ stack' = Become(t, F(t, "FTS_return", d, s, 0, "thread", 0))
            /\ UNCHANGED <<streams, blocks, sinks, clock, lib>>
       ELSE /\ blocks' = RotatedBlocks(d, s)
            /\ streams' = RotatedStreams(d, s)
            /\ clock' = clock + 1
            /\ sinks' = Invoke(sinks, dispatch[d].Sink, "OnProcessThreadBlock", full, t)
            /\ stack' = Become(t, F(t, "OnProcessBlock", d, s, full, "thread", dispatch[d].Sink))

\* Dispatch::FlushThreadStream: the return on an empty block
FlushThreadStreamReturn(t) ==
    /\ Runs(t, "FTS_return")
    /\ stack' = Ret(t)
    /\ UNCHANGED <<GDispatch, dispatch, streams, blocks, sinks, tls, nev, opsLeft, called, clock, lib>>

\* QueueThreadEvent: Push and IsFull on stream s
PushThreadEvent(t, s) ==
    LET bl == Push(blocks, GetCurrentBlock(s), <<t, nev[t] + 1>>, SpanEventSize)
    IN /\ blocks' = bl
       /\ nev' = [nev EXCEPT ![t] = @ + 1]
       /\ stack' = IF IsFull(bl, s)
                    THEN Become(t, [Top(t) EXCEPT !.pc = "QTE_flush", !.s = s])
                    ELSE Ret(t)

\* Dispatch::QueueThreadEvent (BeginScope, EndScope, BeginNamedSpan, EndNamedSpan)
QueueThreadEvent(t) ==
    /\ Runs(t, "QueueThreadEvent")
    /\ IF GCTSCreates(t)
       THEN /\ AllocThreadStream(t, [Top(t) EXCEPT !.pc = "QTE_push"])
            /\ UNCHANGED nev
       ELSE IF tls[t].Ptr = 0
            THEN /\ stack' = Ret(t)
                 /\ UNCHANGED <<tls, streams, blocks, nev, clock, lib>>
            ELSE /\ PushThreadEvent(t, tls[t].Ptr)
                 /\ UNCHANGED <<tls, streams, clock, lib>>
    /\ UNCHANGED <<GDispatch, dispatch, sinks, opsLeft, called, lib>>

\* QueueThreadEvent after GetCurrentThreadStream has created the stream
QueueThreadEventPush(t) ==
    /\ Runs(t, "QTE_push")
    /\ PushThreadEvent(t, Top(t).s)
    /\ UNCHANGED <<GDispatch, dispatch, streams, sinks, tls, opsLeft, called, clock, lib>>

\* QueueThreadEvent once IsFull(): the read of GDispatch and FlushThreadStream
QueueThreadEventFlush(t) ==
    /\ Runs(t, "QTE_flush")
    /\ IF GDispatch = 0
       THEN /\ stack' = Ret(t)
            /\ UNCHANGED <<streams, blocks, sinks, clock, lib>>
       ELSE FlushThreadStream(t, GDispatch, Top(t).s)
    /\ UNCHANGED <<GDispatch, dispatch, tls, nev, opsLeft, called, lib>>

\* Dispatch::FlushCurrentThreadStream
FlushCurrentThreadStream(t) ==
    /\ Runs(t, "FlushCurrentThreadStream")
    /\ IF GDispatch = 0
       THEN /\ stack' = Ret(t)
            /\ UNCHANGED <<streams, blocks, sinks, tls, clock, lib>>
       ELSE IF GCTSCreates(t)
            THEN /\ AllocThreadStream(t, [Top(t) EXCEPT !.pc = "FCTS_flush", !.d = GDispatch])
                 /\ UNCHANGED sinks
            ELSE IF tls[t].Ptr = 0
                 THEN /\ stack' = Ret(t)
                      /\ UNCHANGED <<streams, blocks, sinks, tls, clock, lib>>
                 ELSE /\ FlushThreadStream(t, GDispatch, tls[t].Ptr)
                      /\ UNCHANGED tls
    /\ UNCHANGED <<GDispatch, dispatch, nev, opsLeft, called, lib>>

\* FlushCurrentThreadStream after GetCurrentThreadStream has created the stream
FlushCurrentThreadStreamFlush(t) ==
    /\ Runs(t, "FCTS_flush")
    /\ FlushThreadStream(t, Top(t).d, Top(t).s)
    /\ UNCHANGED <<GDispatch, dispatch, tls, nev, opsLeft, called, lib>>

\* ------------------------------------------------------- HttpEventSink calls
IQSFrame(t, sk) == F(t, "IncrementQueueSize", 0, 0, 0, "metric", sk)

\* a sampling controller that samples every block
ShouldSampleBlockAlways(sk, k) == TRUE

\* FSamplingController::ShouldSampleBlock on a block of kind k
ShouldSampleBlock(sk, k) == sinks[sk].Sampling[k]

\* HttpEventSink::OnStartup: Dispatch::InitCurrentThreadStream()
OnStartup(t) ==
    /\ Runs(t, "OnStartup")
    /\ IF GCTSCreates(t)
       THEN AllocThreadStream(t, [Top(t) EXCEPT !.pc = "OnStartup_inc"])
       ELSE /\ stack' = Goto(t, "OnStartup_inc")
            /\ UNCHANGED <<tls, streams, blocks, clock, lib>>
    /\ UNCHANGED <<GDispatch, dispatch, sinks, nev, opsLeft, called, lib>>

\* HttpEventSink::OnStartup: IncrementQueueSize()
OnStartupIncrement(t) ==
    /\ Runs(t, "OnStartup_inc")
    /\ stack' = Call(t, "OnStartup_enq", IQSFrame(t, Top(t).sk))
    /\ UNCHANGED <<GDispatch, dispatch, streams, blocks, sinks, tls, nev, opsLeft, called, clock, lib>>

\* HttpEventSink::OnStartup: Queue.Enqueue(insert_process), WakeupThread->Trigger()
OnStartupEnqueue(t) ==
    /\ Runs(t, "OnStartup_enq")
    /\ sinks' = Enqueue(sinks, Top(t).sk, "insert_process", 0)
    /\ stack' = Ret(t)
    /\ UNCHANGED <<GDispatch, dispatch, streams, blocks, tls, nev, opsLeft, called, clock, lib>>

\* HttpEventSink::OnInitLogStream, OnInitMetricStream, OnInitThreadStream:
\* IncrementQueueSize()
OnInitStream(t) ==
    /\ Runs(t, "OnInitStream")
    /\ stack' = Call(t, "OnInitStream_enq", IQSFrame(t, Top(t).sk))
    /\ UNCHANGED <<GDispatch, dispatch, streams, blocks, sinks, tls, nev, opsLeft, called, clock, lib>>

\* ... Queue.Enqueue(insert_stream), WakeupThread->Trigger()
OnInitStreamEnqueue(t) ==
    /\ Runs(t, "OnInitStream_enq")
    /\ sinks' = Enqueue(sinks, Top(t).sk, "insert_stream", Top(t).s)
    /\ stack' = Ret(t)
    /\ UNCHANGED <<GDispatch, dispatch, streams, blocks, tls, nev, opsLeft, called, clock, lib>>

\* HttpEventSink::IncrementQueueSize: InterlockedIncrement, then MICROMEGAS_IMETRIC
IncrementQueueSize(t) ==
    /\ Runs(t, "IncrementQueueSize")
    /\ sinks' = [sinks EXCEPT ![Top(t).sk].QueueSize = @ + 1]
    /\ stack' = Become(t, F(t, "IntMetric", 0, 0, 0, "metric", 0))
    /\ UNCHANGED <<GDispatch, dispatch, streams, blocks, tls, nev, opsLeft, called, clock, lib>>

\* HttpEventSink::OnProcess*Block: MICROMEGAS_SPAN_FUNCTION, the constructor of the span guard
OnProcessBlock(t) ==
    /\ Runs(t, "OnProcessBlock")
    /\ stack' = SpanEvent(t, IF Top(t).k = "thread" THEN "OPB_span" ELSE "OPB_sample")
    /\ UNCHANGED <<GDispatch, dispatch, streams, blocks, sinks, tls, nev, opsLeft, called, clock, lib>>

\* SamplingController::ShouldSampleBlock(ThreadBlockPtr): MICROMEGAS_SPAN_FUNCTION
ShouldSampleThreadBlock(t) ==
    /\ Runs(t, "OPB_span")
    /\ stack' = SpanEvent(t, "OPB_sample")
    /\ UNCHANGED <<GDispatch, dispatch, streams, blocks, sinks, tls, nev, opsLeft, called, clock, lib>>

\* the answer of ShouldSampleBlock; for a thread block the destructor of its span
\* guard runs before OnProcessThreadBlock goes on
OnProcessBlockSample(t) ==
    /\ Runs(t, "OPB_sample")
    /\ LET next == IF ShouldSampleBlock(Top(t).sk, Top(t).k) THEN "OPB_inc" ELSE "OPB_end"
       IN stack' = IF Top(t).k = "thread" THEN SpanEvent(t, next) ELSE Goto(t, next)
    /\ UNCHANGED <<GDispatch, dispatch, streams, blocks, sinks, tls, nev, opsLeft, called, clock, lib>>

\* HttpEventSink::OnProcess*Block: IncrementQueueSize()
OnProcessBlockIncrement(t) ==
    /\ Runs(t, "OPB_inc")
    /\ stack' = Call(t, "OPB_enq", IQSFrame(t, Top(t).sk))
    /\ UNCHANGED <<GDispatch, dispatch, streams, blocks, sinks, tls, nev, opsLeft, called, clock, lib>>

\* HttpEventSink::OnProcess*Block: Queue.Enqueue(insert_block), Trigger, and the
\* destructor of the span guard
OnProcessBlockEnqueue(t) ==
    /\ Runs(t, "OPB_enq")
    /\ sinks' = Enqueue(sinks, Top(t).sk, "insert_block", Top(t).b)
    /\ stack' = SpanEventReturn(t)
    /\ UNCHANGED <<GDispatch, dispatch, streams, blocks, tls, nev, opsLeft, called, clock, lib>>

\* HttpEventSink::OnProcess*Block returns without queueing: the destructor of the
\* span guard
OnProcessBlockEnd(t) ==
    /\ Runs(t, "OPB_end")
    /\ stack' = SpanEventReturn(t)
    /\ UNCHANGED <<GDispatch, dispatch, streams, blocks, sinks, tls, nev, opsLeft, called, clock, lib>>

\* ------------------------------------------------------------------ Shutdown
CallShutdown(t) == ApiCall(t, "Shutdown", "", 0, 0)

\* Dispatch::Shutdown up to the call of Sink->OnShutdown
Shutdown(t) ==
    /\ Runs(t, "Shutdown")
    /\ IF GDispatch = 0
       THEN /\ stack' = Ret(t)
            /\ UNCHANGED sinks
       ELSE LET sk == dispatch[GDispatch].Sink
            IN /\ sinks' = Invoke(sinks, sk, "OnShutdown", 0, t)
               /\ stack' = Call(t, "Shutdown_clear", F(t, "OnShutdown", GDispatch, 0, 0, "", sk))
    /\ UNCHANGED <<GDispatch, dispatch, streams, blocks, tls, nev, opsLeft, called, clock, lib>>

\* MICROMEGAS_LOG(target, level, msg): a log entry through Dispatch::Log, then the
\* calling frame goes on at retpc
LogMacro(t, retpc) == Call(t, retpc, F(t, "Log", 0, 0, 0, "log", 0))

\* HttpEventSink::OnShutdown: MICROMEGAS_LOG(..., "Shutting down")
OnShutdown(t) ==
    /\ Runs(t, "OnShutdown")
    /\ stack' = LogMacro(t, "OnShutdown_req")
    /\ UNCHANGED <<GDispatch, dispatch, streams, blocks, sinks, tls, nev, opsLeft, called, clock, lib>>

\* HttpEventSink::OnShutdown: RequestShutdown = true; WakeupThread->Trigger()
OnShutdownRequest(t) ==
    /\ Runs(t, "OnShutdown_req")
    /\ sinks' = [sinks EXCEPT ![Top(t).sk].RequestShutdown = TRUE]
    /\ stack' = Goto(t, "OnShutdown_wait")
    /\ UNCHANGED <<GDispatch, dispatch, streams, blocks, tls, nev, opsLeft, called, clock, lib>>

\* HttpEventSink::OnShutdown: Thread->WaitForCompletion()
OnShutdownWait(t) ==
    /\ Runs(t, "OnShutdown_wait")
    /\ sinks[Top(t).sk].Finished
    /\ stack' = Ret(t)
    /\ UNCHANGED <<GDispatch, dispatch, streams, blocks, sinks, tls, nev, opsLeft, called, clock, lib>>

\* Dispatch::Shutdown: GDispatch = nullptr
ShutdownClear(t) ==
    /\ Runs(t, "Shutdown_clear")
    /\ GDispatch' = 0
    /\ stack' = Ret(t)
    /\ UNCHANGED <<dispatch, streams, blocks, sinks, tls, nev, opsLeft, called, clock, lib>>

\* ------------------------------------------------------- the worker thread
\* ITelemetryAuthenticator::IsReady of the authenticator of sink k
\* (FApiKeyAuthenticator::IsReady: the key has been set)
IsReady(k) == AuthReady[k]

\* HttpEventSink::IsBusy
IsBusy(k) == sinks[k].QueueSize > 0

\* HttpEventSink::Run while the authenticator is not ready: if (RequestShutdown) break
RunExit(w) ==
    /\ Runs(w, "Run")
    /\ ~IsReady(Top(w).sk)
    /\ sinks[Top(w).sk].RequestShutdown
    /\ sinks' = [sinks EXCEPT ![Top(w).sk].Finished = TRUE]
    /\ stack' = [stack EXCEPT ![w] = <<>>]
    /\ UNCHANGED <<GDispatch, dispatch, streams, blocks, tls, nev, opsLeft, called, clock, lib>>

\* HttpEventSink::Run: Flusher->Tick(this) when the flush period has elapsed
RunTick(w) ==
    /\ Runs(w, "Run")
    /\ ~IsReady(Top(w).sk)
    /\ ~sinks[Top(w).sk].RequestShutdown
    /\ opsLeft[w] > 0
    /\ opsLeft' = [opsLeft EXCEPT ![w] = @ - 1]
    /\ UNCHANGED called
    /\ stack' = Call(w, "Run", F(w, "FM_log", 0, 0, 0, "", Top(w).sk))
    /\ UNCHANGED <<GDispatch, dispatch, streams, blocks, sinks, tls, nev, clock, lib>>

\* FlushMonitor::GetFlushPeriodSeconds: the console variable telemetry.auto_flush_period
GetFlushPeriodSeconds == FlushPeriod

\* a test of the period that always finds it elapsed
TickFlushesAlways(Now, LastFlush, Period) == TRUE

\* FlushMonitor::Tick: Next = LastFlush + Period; if (Now >= Next)
TickFlushes(Now, LastFlush, Period) == Now >= LastFlush + Period

\* HttpEventSink::Run: Flusher->Tick(this) when FPlatformTime::Seconds() returns Now;
\* Tick calls Flush() or returns the time left, which the worker then waits for
Tick(w, Now) ==
    /\ Runs(w, "Run")
    /\ ~IsReady(Top(w).sk)
    /\ ~sinks[Top(w).sk].RequestShutdown
    /\ opsLeft[w] > 0
    /\ opsLeft' = [opsLeft EXCEPT ![w] = @ - 1]
    /\ clock' = Now
    /\ stack' = IF TickFlushes(Now, sinks[Top(w).sk].LastFlush, GetFlushPeriodSeconds)
                THEN Call(w, "Run", F(w, "FM_log", 0, 0, 0, "", Top(w).sk))
                ELSE stack
    /\ UNCHANGED <<GDispatch, dispatch, streams, blocks, sinks, tls, nev, called, lib>>

\* HttpEventSink::Run: if (Auth->IsReady())
RunReady(w) ==
    /\ Runs(w, "Run")
    /\ IsReady(Top(w).sk)
    /\ stack' = Goto(w, "Run_dequeue")
    /\ UNCHANGED <<GDispatch, dispatch, streams, blocks, sinks, tls, nev, opsLeft, called, clock, lib>>

\* while (Queue.Dequeue(c)): the callback dequeued is kept in the frame
RunDequeue(w) ==
    /\ Runs(w, "Run_dequeue")
    /\ IF sinks[Top(w).sk].Queue = <<>>
       THEN /\ stack' = Goto(w, "Run_shutdown")
            /\ sinks' = sinks
       ELSE /\ stack' = Become(w, [Top(w) EXCEPT !.pc = "Run_dec",
                                                 !.b = Head(sinks[Top(w).sk].Queue)])
            /\ sinks' = [sinks EXCEPT ![Top(w).sk].Queue = Tail(@)]
    /\ UNCHANGED <<GDispatch, dispatch, streams, blocks, tls, nev, opsLeft, called, clock, lib>>

\* a decrement that takes two
InterlockedDecrementTwice(n) == n - 2

\* FPlatformAtomics::InterlockedDecrement(&QueueSize)
InterlockedDecrement(n) == n - 1

\* newQueueSize = InterlockedDecrement(&QueueSize); MICROMEGAS_IMETRIC(newQueueSize)
RunDecrement(w) ==
    /\ Runs(w, "Run_dec")
    /\ sinks' = [sinks EXCEPT ![Top(w).sk].QueueSize = InterlockedDecrement(@)]
    /\ stack' = Call(w, "Run_exec", F(w, "IntMetric", 0, 0, 0, "metric", 0))
    /\ UNCHANGED <<GDispatch, dispatch, streams, blocks, tls, nev, opsLeft, called, clock, lib>>

\* the span events of FormatBlockRequest: its own scope, ExtractBlockDependencies
\* and CompressBuffer twice; the other requests are formatted without a span
FormatSpanEvents(item) == IF item.item = "insert_block" THEN 8 ELSE 0

\* c(): the callback starts; d counts the span events its formatting still emits
RunExecute(w) ==
    /\ Runs(w, "Run_exec")
    /\ executed' = [executed EXCEPT ![Top(w).sk] = Append(@, Top(w).b)]
    /\ stack' = Become(w, [Top(w) EXCEPT !.pc = "Run_format", !.d = FormatSpanEvents(Top(w).b)])
    /\ UNCHANGED <<GDispatch, dispatch, streams, blocks, sinks, tls, nev, opsLeft, called, clock,
                   PropertySets, queues, pushed, ctx, AuthReady, http>>

\* the callback formats the request, then SendBinaryRequest: MICROMEGAS_SPAN_FUNCTION
RunFormat(w) ==
    /\ Runs(w, "Run_format")
    /\ stack' = IF Top(w).d > 0
                THEN [stack EXCEPT ![w] = Append([@ EXCEPT ![Len(@)].d = @ - 1],
                                                 F(w, "QueueThreadEvent", 0, 0, 0, "thread", 0))]
                ELSE SpanEvent(w, "Send")
    /\ UNCHANGED <<GDispatch, dispatch, streams, blocks, sinks, tls, nev, opsLeft, called, clock, lib>>

\* const int RetryCount = 1, in the completion delegate SendBinaryRequest binds
RetryCount == 1

\* a SendBinaryRequest that submits a second request when the first is not signed
SendBinaryRequestResends(w, signed, started) ==
    /\ Runs(w, "Send")
    /\ http' = http \o <<[item |-> Top(w).b, RemainingRetries |-> RetryCount,
                          attempt |-> 1, first |-> Len(http) + 1,
                          status |-> IF ~signed THEN "unsigned"
                                     ELSE IF ~started THEN "failed" ELSE "sent"]>>
                     \o (IF signed THEN <<>>
                         ELSE <<[item |-> Top(w).b, RemainingRetries |-> RetryCount - 1,
                                 attempt |-> 2, first |-> Len(http) + 1, status |-> "sent"]>>)
    /\ stack' = SpanEvent(w, "Run_dequeue")
    /\ UNCHANGED <<GDispatch, dispatch, streams, blocks, sinks, tls, nev, opsLeft, called, clock,
                   PropertySets, queues, pushed, ctx, AuthReady, executed>>

\* HttpEventSink::SendBinaryRequest after its span: the request is created, signed
\* and handed to the HTTP module; then the span guard is destroyed, the callback
\* returns and the worker dequeues again
SendBinaryRequest(w, signed, started) ==
    /\ Runs(w, "Send")
    /\ http' = Append(http, [item |-> Top(w).b, RemainingRetries |-> RetryCount,
                             attempt |-> 1, first |-> Len(http) + 1,
                             status |-> IF ~signed THEN "unsigned"
                                        ELSE IF ~started THEN "failed" ELSE "sent"])
    /\ stack' = SpanEvent(w, "Run_dequeue")
    /\ UNCHANGED <<GDispatch, dispatch, streams, blocks, sinks, tls, nev, opsLeft, called, clock,
                   PropertySets, queues, pushed, ctx, AuthReady, executed>>

\* if (RequestShutdown) break, after the queue was found empty
RunShutdown(w) ==
    /\ Runs(w, "Run_shutdown")
    /\ IF sinks[Top(w).sk].RequestShutdown
       THEN /\ sinks' = [sinks EXCEPT ![Top(w).sk].Finished = TRUE]
            /\ stack' = [stack EXCEPT ![w] = <<>>]
       ELSE /\ sinks' = sinks
            /\ stack' = Goto(w, "Run_wait")
    /\ UNCHANGED <<GDispatch, dispatch, streams, blocks, tls, nev, opsLeft, called, clock, lib>>

\* Flusher->Tick(this) within the flush period, then WakeupThread->Wait(TimeoutMs)
\* returns, on a trigger or at the timeout
RunWait(w) ==
    /\ Runs(w, "Run_wait")
    /\ stack' = Goto(w, "Run")
    /\ UNCHANGED <<GDispatch, dispatch, streams, blocks, sinks, tls, nev, opsLeft, called, clock, lib>>

\* the authenticator of sink k becomes ready: HttpEventSink::OnAuthUpdated.  Only
\* the worker reads IsReady(), at the top of its loop: the step is taken when the
\* worker is there, which is when it matters
OnAuthUpdated(k) ==
    /\ ~AuthReady[k]
    /\ At(Worker(k), "Run")
    /\ AuthReady' = [AuthReady EXCEPT ![k] = TRUE]
    /\ UNCHANGED <<GDispatch, dispatch, streams, blocks, sinks, tls, stack, nev, opsLeft, called,
                   clock, PropertySets, queues, pushed, ctx, executed, http>>

\* the HTTP module completes request r on thread t with a response (0 when there is
\* none, else its code) and calls the delegate bound to the request:
\* OnProcessRequestComplete begins with MICROMEGAS_IMETRIC
HttpComplete(t, r, response, bSucceeded) ==
    /\ Idle(t)
    /\ Scheduled(t)
    /\ http[r].status = "sent"
    /\ http[r].first <= MaxCompleted
    /\ http[r].attempt <= MaxAttempts
    /\ http' = [http EXCEPT ![r].status = "completing"]
    /\ stack' = [stack EXCEPT ![t] = <<F(t, "OPRC", r, 0, <<response, bSucceeded>>, "", 0),
                                       F(t, "IntMetric", 0, 0, 0, "metric", 0)>>]
    /\ UNCHANGED <<GDispatch, dispatch, streams, blocks, sinks, tls, nev, opsLeft, called, clock,
                   PropertySets, queues, pushed, ctx, AuthReady, executed>>

\* a test that retries whatever the response is
ShouldRetryAlways(response, RemainingRetries) == RemainingRetries > 0

\* if (!HttpResponse.IsValid() && RemainingRetries > 0)
ShouldRetry(response, RemainingRetries) == response = 0 /\ RemainingRetries > 0

\* RetryRequest(OldRequest, RemainingRetries): the clone of request r, unless one of
\* its header pairs does not split; ProcessRequest() may fail
RetryRequest(r, RemainingRetries, malformed, started) ==
    IF malformed THEN [http EXCEPT ![r].status = "retried"]
    ELSE Append([http EXCEPT ![r].status = "retried"],
                [item |-> http[r].item, RemainingRetries |-> RemainingRetries,
                 attempt |-> http[r].attempt + 1, first |-> http[r].first,
                 status |-> IF started THEN "sent" ELSE "failed"])

\* OnProcessRequestComplete after its metric: retry, or log a warning unless the
\* request succeeded with code 200
OnProcessRequestComplete(t, malformed, started) ==
    /\ Runs(t, "OPRC")
    /\ http' = IF ShouldRetry(Top(t).b[1], http[Top(t).d].RemainingRetries)
               THEN RetryRequest(Top(t).d, http[Top(t).d].RemainingRetries - 1, malformed, started)
               ELSE [http EXCEPT ![Top(t).d].status =
                        IF ~Top(t).b[2] \/ Top(t).b[1] # 200 THEN "warned" ELSE "done"]
    /\ stack' = Ret(t)
    /\ UNCHANGED <<GDispatch, dispatch, streams, blocks, sinks, tls, nev, opsLeft, called, clock,
                   PropertySets, queues, pushed, ctx, AuthReady, executed>>

\* the steps of HttpEventSink::Run by worker thread w once the authenticator is ready
RunStep(w) ==
    \/ RunReady(w)
    \/ RunDequeue(w)
    \/ RunDecrement(w)
    \/ RunExecute(w)
    \/ RunFormat(w)
    \/ RunShutdown(w)
    \/ RunWait(w)

\* FlushMonitor::Flush: Dispatch::FlushLogStream()
FlushMonitorFlushLog(t) ==
    /\ Runs(t, "FM_log")
    /\ stack' = Call(t, "FM_metric", F(t, "FlushStream", 0, 0, 0, "log", 0))
    /\ UNCHANGED <<GDispatch, dispatch, streams, blocks, sinks, tls, nev, opsLeft, called, clock, lib>>

\* FlushMonitor::Flush: Dispatch::FlushMetricStream()
FlushMonitorFlushMetric(t) ==
    /\ Runs(t, "FM_metric")
    /\ stack' = Call(t, "FM_mark", F(t, "FlushStream", 0, 0, 0, "metric", 0))
    /\ UNCHANGED <<GDispatch, dispatch, streams, blocks, sinks, tls, nev, opsLeft, called, clock, lib>>

\* the record of a sweep by thread t in the history of its calls: the streams of the
\* registry of dispatch d that MarkStreamFull was called on, each with the number of
\* events that had been pushed into it by then
MarkedFrame(t, d) ==
    F(t, "MarkStreamFull", d, 0,
      [s \in {dispatch[d].ThreadStreams[i] : i \in DOMAIN dispatch[d].ThreadStreams} |-> NewOffset(s)],
      "thread", 0)

\* Dispatch::ForEachThreadStream(&MarkStreamFull), then the call of
\* Dispatch::FlushCurrentThreadStream()
ForEachThreadStream(t) ==
    /\ Runs(t, "FM_mark")
    /\ streams' = IF GDispatch = 0 THEN streams
                  ELSE LET reg == dispatch[GDispatch].ThreadStreams
                       IN [s \in DOMAIN streams |->
                             IF \E i \in DOMAIN reg : reg[i] = s
                             THEN MarkFull(streams[s]) ELSE streams[s]]
    /\ called' = IF GDispatch = 0 THEN called
                 ELSE [called EXCEPT ![t] = Append(@, MarkedFrame(t, GDispatch))]
    /\ stack' = Call(t, "FM_done", F(t, "FlushCurrentThreadStream", 0, 0, 0, "thread", 0))
    /\ UNCHANGED <<GDispatch, dispatch, blocks, sinks, tls, nev, opsLeft, clock, lib>>

\* FlushMonitor::Flush: LastFlush = FPlatformTime::Seconds()
FlushMonitorDone(t) ==
    /\ Runs(t, "FM_done")
    /\ sinks' = [sinks EXCEPT ![Top(t).sk].LastFlush = clock]
    /\ clock' = clock + 1
    /\ stack' = Ret(t)
    /\ UNCHANGED <<GDispatch, dispatch, streams, blocks, tls, nev, opsLeft, called, lib>>

\* ---------------------------------------------------------- PropertySetStore
\* the FNames a context is made of, each named by its comparison index
Names == 1..NbNames

\* a TMap<FName, FName>: its pairs in iteration order, the order of insertion
\* (nothing is ever removed from a context handed to the store); keys are unique
IsContext(c) == \A i, j \in DOMAIN c : c[i][1] = c[j][1] => i = j

Contexts ==
    {c \in UNION {[1..n -> Names \X Names] : n \in 0..NbNames} : IsContext(c)}

\* uint32 arithmetic on two 16-bit halves <<high, low>>
Half == 65536

Word(n) == <<0, n>>

RECURSIVE Pow2(_)
Pow2(k) == IF k = 0 THEN 1 ELSE 2 * Pow2(k - 1)

RECURSIVE BitXor(_, _, _)
BitXor(a, b, n) ==
    IF n = 0 THEN 0 ELSE ((a + b) % 2) + 2 * BitXor(a \div 2, b \div 2, n - 1)

\* the exclusive or of two 4-bit digits, tabulated, and of two 16-bit halves
XorDigit == [x \in 0..15, y \in 0..15 |-> BitXor(x, y, 4)]

Xor16(a, b) ==
    XorDigit[a % 16, b % 16]
    + 16 * XorDigit[(a \div 16) % 16, (b \div 16) % 16]
    + 256 * XorDigit[(a \div 256) % 16, (b \div 256) % 16]
    + 4096 * XorDigit[a \div 4096, b \div 4096]

Xor32(a, b) == <<Xor16(a[1], b[1]), Xor16(a[2], b[2])>>

Add32(a, b) ==
    <<(a[1] + b[1] + ((a[2] + b[2]) \div Half)) % Half, (a[2] + b[2]) % Half>>

Sub32(a, b) ==
    <<(a[1] - b[1] - (IF a[2] < b[2] THEN 1 ELSE 0) + 2 * Half) % Half,
      (a[2] - b[2] + Half) % Half>>

\* a >> k and a << k, for 0 < k <= 16
Shr32(a, k) ==
    <<a[1] \div Pow2(k), ((a[2] \div Pow2(k)) + (a[1] % Pow2(k)) * Pow2(16 - k)) % Half>>

Shl32(a, k) ==
    <<(a[1] % Pow2(16 - k)) * Pow2(k) + (a[2] \div Pow2(16 - k)),
      (a[2] % Pow2(16 - k)) * Pow2(k)>>

\* one line of the mix of HashCombine: x -= y; x -= z; x ^= shifted
MixLine(x, y, z, shifted) == Xor32(Sub32(Sub32(x, y), z), shifted)

\* the golden ratio constant 0x9e3779b9 of HashCombine
HashSeed == <<40503, 31161>>

\* the only element of a set of one element
Only(S) == CHOOSE x \in S : TRUE

\* the shifts of the nine lines of the mix: C>>13, A<<8, B>>13, C>>12, A<<16,
\* B>>5, C>>3, A<<10, B>>15 (a shift to the right is written negative)
Shifts == <<0 - 13, 8, 0 - 13, 0 - 12, 16, 0 - 5, 0 - 3, 10, 0 - 15>>

Shift(z, k) == IF k < 0 THEN Shr32(z, 0 - k) ELSE Shl32(z, k)

\* lines i to 9 of the mix, on the words <<x, y, z>>: line i is x -= y; x -= z;
\* x ^= (z shifted), and the next line works on <<y, z, x>>
RECURSIVE Mix(_, _)
Mix(s, i) ==
    IF i > Len(Shifts) THEN s[3]
    ELSE Only({Mix(<<v[2], v[3], MixLine(v[1], v[2], v[3], Shift(v[3], Shifts[i]))>>, i + 1) :
               v \in {s}})

\* HashCombine(A, C) of the engine (Templates/TypeHash.h): B = 0x9e3779b9; A += B;
\* then the nine lines of the mix; return C
HashCombine(A, C) == Mix(<<Add32(A, HashSeed), HashSeed, C>>, 1)

\* GetTypeHash(FName)
GetTypeHash(name) == Word(name)

\* HashProperties, the pairs of the context from i on still to combine
RECURSIVE HashFrom(_, _, _)
HashFrom(Context, i, Hash) ==
    IF i > Len(Context) THEN Hash
    ELSE Only({HashFrom(Context, i + 1,
                        HashCombine(GetTypeHash(Context[i][2]),
                                    HashCombine(GetTypeHash(Context[i][1]), h))) :
               h \in {Hash}})

HashProperties(Context) == HashFrom(Context, 1, Word(0))

\* SetStoreKeyFuncs::GetKeyHash: the hash of every context, computed once
KeyHashes == {<<c, HashProperties(c)>> : c \in Contexts}

GetKeyHash(Key) == (CHOOSE p \in KeyHashes : p[1] = Key)[2]

\* SetStoreKeyFuncs::Matches: TMap::OrderIndependentCompareEqual
Matches(Lhs, Rhs) == {Lhs[i] : i \in DOMAIN Lhs} = {Rhs[i] : i \in DOMAIN Rhs}

\* the buckets of a TSet of n elements (the default set allocator: one bucket
\* below 4 elements, then the power of two above n / 2 + 8)
RECURSIVE RoundUpToPowerOfTwo(_, _)
RoundUpToPowerOfTwo(Arg, p) == IF p >= Arg THEN p ELSE RoundUpToPowerOfTwo(Arg, 2 * p)

HashSize == [n \in 0..MaxSets + 1 |-> IF n >= 4 THEN RoundUpToPowerOfTwo(n \div 2 + 8, 1) ELSE 1]

\* the bucket of the key: KeyHash & (HashSize - 1)
Bucket(Key, n) == GetKeyHash(Key)[2] % HashSize[n]

\* TSet::FindId: the elements of the bucket of the key that match it
FindId(Key) ==
    {i \in DOMAIN PropertySets :
        /\ Bucket(PropertySets[i], Len(PropertySets)) = Bucket(Key, Len(PropertySets))
        /\ Matches(PropertySets[i], Key)}

\* PropertySetStore::Get(Context): a context that is not found is added
PropertySetStoreGet(Context) ==
    /\ FindId(Context) # {} \/ Len(PropertySets) < MaxSets
    /\ PropertySets' = IF FindId(Context) # {} THEN PropertySets
                       ELSE Append(PropertySets, Context)
    /\ UNCHANGED <<GDispatch, dispatch, streams, blocks, sinks, tls, stack, nev, opsLeft,
                   called, clock, queues, pushed, ctx, net>>

\* ------------------------------------------------------------ DefaultContext
\* A TMap keeps its pairs in a sparse array: a removed pair leaves a hole, <<>>,
\* that heads the free list, and the next pair added fills the hole that was
\* freed last.  Iteration, and so a copy of the map, visits the slots in order.
Hole == <<>>

\* the pairs of the map in iteration order: what PropertySet's constructor copies
Pairs(Map) == SelectSeq(Map.Slots, LAMBDA pair : pair # Hole)

\* TMap::Find(Key): the slot of the key, 0 when the map has no such key
ContextFind(Map, Key) ==
    IF \E i \in DOMAIN Map.Slots : Map.Slots[i] # Hole /\ Map.Slots[i][1] = Key
    THEN CHOOSE i \in DOMAIN Map.Slots : Map.Slots[i] # Hole /\ Map.Slots[i][1] = Key
    ELSE 0

\* TMap::Add(Key, Value) of a key the map does not have
ContextAdd(Map, Key, Value) ==
    IF Map.Free = <<>>
    THEN [Map EXCEPT !.Slots = Append(@, <<Key, Value>>)]
    ELSE [Map EXCEPT !.Slots[Head(Map.Free)] = <<Key, Value>>, !.Free = Tail(@)]

\* TMap::Remove(Key)
ContextRemove(Map, Key) ==
    IF ContextFind(Map, Key) = 0 THEN Map
    ELSE [Map EXCEPT !.Slots[ContextFind(Map, Key)] = Hole,
                     !.Free = <<ContextFind(Map, Key)>> \o @]

\* the test of Set and of SetBatch: the key is there with this value already
SameValue(Map, Key, Value) ==
    ContextFind(Map, Key) # 0 /\ Map.Slots[ContextFind(Map, Key)][2] = Value

\* the body of Set and of each round of SetBatch: overwrite the value, or add
ContextSet(Map, Key, Value) ==
    IF SameValue(Map, Key, Value) THEN Map
    ELSE IF ContextFind(Map, Key) # 0
         THEN [Map EXCEPT !.Slots[ContextFind(Map, Key)] = <<Key, Value>>]
         ELSE ContextAdd(Map, Key, Value)

RECURSIVE ContextSetAll(_, _)
ContextSetAll(Map, Entries) ==
    IF Entries = <<>> THEN Map
    ELSE ContextSetAll(ContextSet(Map, Head(Entries)[1], Head(Entries)[2]), Tail(Entries))

\* what Store->Get(TheContext) returns: the element found, else the one it adds
GetResultFirst(Key) ==
    IF FindId(Key) # {} THEN 1 ELSE Len(PropertySets) + 1

GetResult(Key) ==
    IF FindId(Key) # {} THEN CHOOSE i \in FindId(Key) : \A j \in FindId(Key) : j <= i
    ELSE Len(PropertySets) + 1

\* DefaultContext::UpdatePropertySet, the map being NewMap by now
UpdatePropertySet(NewMap) ==
    /\ FindId(Pairs(NewMap)) # {} \/ Len(PropertySets) < MaxSets
    /\ TheContext' = NewMap
    /\ CurrentPropertySet' = GetResult(Pairs(NewMap))
    /\ PropertySets' = IF FindId(Pairs(NewMap)) # {} THEN PropertySets
                       ELSE Append(PropertySets, Pairs(NewMap))
    /\ UNCHANGED <<GDispatch, dispatch, streams, blocks, sinks, tls, stack, nev, opsLeft,
                   called, clock, queues, pushed, net>>

\* DefaultContext::DefaultContext(Store)
DefaultContextNew ==
    /\ CurrentPropertySet = 0
    /\ UpdatePropertySet(TheContext)

\* DefaultContext::Set(Key, Value): nothing happens when the value is the same
DefaultContextSet(Key, Value) ==
    /\ CurrentPropertySet # 0
    /\ IF SameValue(TheContext, Key, Value) THEN UNCHANGED vars
       ELSE UpdatePropertySet(ContextSet(TheContext, Key, Value))

\* DefaultContext::SetBatch(Entries)
DefaultContextSetBatch(Entries) ==
    /\ CurrentPropertySet # 0
    /\ UpdatePropertySet(ContextSetAll(TheContext, Entries))

\* DefaultContext::Unset(Key)
DefaultContextUnset(Key) ==
    /\ CurrentPropertySet # 0
    /\ UpdatePropertySet(ContextRemove(TheContext, Key))

\* DefaultContext::Clear()
DefaultContextClear ==
    /\ CurrentPropertySet # 0
    /\ UpdatePropertySet([TheContext EXCEPT !.Slots = <<>>, !.Free = <<>>])

\* ------------------------------------------------------- HeterogeneousQueue
\* The objects events point to, by address.  Static strings: the FNameEntry of
\* FName n at address n, the char literals, the TCHAR literals.
AnsiLiterals == {11, 12}
WideLiterals == {13, 14}

\* StaticStringRef(ptr): <<Ptr, SizeBytes, Codec>>; the literals are 2 characters long
StaticStringRef(ptr) ==
    IF ptr \in Names THEN <<ptr, 0, 3>>
    ELSE IF ptr \in AnsiLiterals THEN <<ptr, 2, 0>> ELSE <<ptr, 4, 1>>

\* the descriptors the macros declare as function statics, by address: the strings
\* each points to, in the order of its members
LogMetadata == {<<21, <<13, 14, 11>>>>, <<22, <<13, 13, 11>>>>}
MetricMetadata == {<<31, <<13, 14, 12, 11>>>>, <<32, <<14, 14, 12, 11>>>>, <<33, <<13, 13, 11, 11>>>>}
SpanMetadata == {<<41, <<11, 12, 11>>>>, <<42, <<12, 12, 11>>>>}
SpanLocation == {<<51, <<12, 11>>>>, <<52, <<11, 11>>>>}

\* the members of the descriptor at address desc
Metadata(desc) ==
    Only({m[2] : m \in {x \in LogMetadata \cup MetricMetadata \cup SpanMetadata \cup SpanLocation :
                          x[1] = desc}})

\* the address of element i of PropertySets, and back
PropertySetAt == 60

\* the DynamicStrings of log entries, <<Codec, bytes>>: an empty char string and
\* a TCHAR string of two characters
Messages == {<<0, <<>>>>, <<1, <<104, 0, 105, 0>>>>}

\* the types of each queue, in the order of its template arguments, and the type
\* index Push writes
QueueTypes(k) ==
    CASE k = "log" -> <<"TaggedLogInteropEvent", "TaggedLogString", "StaticStringRef">>
      [] k = "metric" -> <<"TaggedIntegerMetricEvent", "TaggedFloatMetricEvent">>
      [] k = "thread" -> <<"BeginThreadSpanEvent", "EndThreadSpanEvent",
                           "BeginThreadNamedSpanEvent", "EndThreadNamedSpanEvent">>

IndexOfType(T, k) == Only({i \in DOMAIN QueueTypes(k) : QueueTypes(k)[i] = T}) - 1

\* the members of each type in the order of declaration; an event is <<T, values>>,
\* the values in this order
Members(T) ==
    CASE T = "TaggedLogInteropEvent" -> <<"Timestamp", "Level", "Target", "Properties", "Msg">>
      [] T = "TaggedLogString" -> <<"Desc", "Properties", "Timestamp", "Msg">>
      [] T = "StaticStringRef" -> <<"Ref">>
      [] T \in {"TaggedIntegerMetricEvent", "TaggedFloatMetricEvent"} ->
            <<"Desc", "Properties", "Value", "Timestamp">>
      [] T \in {"BeginThreadSpanEvent", "EndThreadSpanEvent"} -> <<"Desc", "Timestamp">>
      [] T \in {"BeginThreadNamedSpanEvent", "EndThreadNamedSpanEvent"} ->
            <<"Desc", "Timestamp", "Name">>

Member(ev, name) == ev[2][Only({i \in DOMAIN Members(ev[1]) : Members(ev[1])[i] = name})]

\* Serializer<T>::IsSizeStatic
IsSizeStatic(T) == T \notin {"TaggedLogInteropEvent", "TaggedLogString"}

\* what Serializer<T>::Write appends, in order: <<member, representation>>; the
\* default serializer copies the object, its members in the order of declaration
Written(T) ==
    CASE T = "TaggedLogInteropEvent" ->
            <<<<"Timestamp", "u64">>, <<"Level", "u8">>, <<"Target", "ref">>,
              <<"Properties", "u64">>, <<"Msg", "str">>>>
      [] T = "TaggedLogString" ->
            <<<<"Desc", "u64">>, <<"Properties", "u64">>, <<"Timestamp", "u64">>,
              <<"Msg", "str">>>>
      [] T = "StaticStringRef" -> <<<<"Ref", "ref">>>>
      [] T \in {"TaggedIntegerMetricEvent", "TaggedFloatMetricEvent"} ->
            <<<<"Desc", "u64">>, <<"Properties", "u64">>, <<"Value", "u64">>,
              <<"Timestamp", "u64">>>>
      [] T \in {"BeginThreadSpanEvent", "EndThreadSpanEvent"} ->
            <<<<"Desc", "u64">>, <<"Timestamp", "u64">>>>
      [] T \in {"BeginThreadNamedSpanEvent", "EndThreadNamedSpanEvent"} ->
            <<<<"Desc", "u64">>, <<"Timestamp", "u64">>, <<"Name", "ref">>>>

\* a Read of TaggedLogString that takes the properties before the descriptor
ReadsSwapped(T) ==
    IF T = "TaggedLogString"
    THEN <<<<"Properties", "u64">>, <<"Desc", "u64">>, <<"Timestamp", "u64">>, <<"Msg", "str">>>>
    ELSE Written(T)

\* what Serializer<T>::Read reads, in order
Reads(T) ==
    CASE T = "TaggedLogInteropEvent" ->
            <<<<"Timestamp", "u64">>, <<"Level", "u8">>, <<"Target", "ref">>,
              <<"Properties", "u64">>, <<"Msg", "str">>>>
      [] T = "TaggedLogString" ->
            <<<<"Desc", "u64">>, <<"Properties", "u64">>, <<"Timestamp", "u64">>,
              <<"Msg", "str">>>>
      [] OTHER -> Written(T)

\* details::WritePOD of an unsigned integer of w bytes
RECURSIVE WritePOD(_, _)
WritePOD(value, w) == IF w = 0 THEN <<>> ELSE <<value % 256>> \o WritePOD(value \div 256, w - 1)

\* details::ReadPOD of an unsigned integer of w bytes at the cursor
RECURSIVE ReadPOD(_, _, _)
ReadPOD(buffer, cursor, w) ==
    IF w = 0 THEN 0 ELSE buffer[cursor + 1] + 256 * ReadPOD(buffer, cursor + 1, w - 1)

\* the bytes of a member: an integer or pointer, a StaticStringRef (3 bytes of
\* padding after the codec), a DynamicString (codec, size, characters)
WriteMember(v, repr) ==
    CASE repr = "u64" -> WritePOD(v, 8)
      [] repr = "u8" -> WritePOD(v, 1)
      [] repr = "ref" -> WritePOD(v[1], 8) \o WritePOD(v[2], 4) \o WritePOD(v[3], 1) \o <<0, 0, 0>>
      [] repr = "str" -> WritePOD(v[1], 1) \o WritePOD(Len(v[2]), 4) \o v[2]

\* the bytes of a member at the cursor
SizeAt(buffer, cursor, repr) ==
    CASE repr = "u64" -> 8
      [] repr = "u8" -> 1
      [] repr = "ref" -> 16
      [] repr = "str" -> 5 + ReadPOD(buffer, cursor + 1, 4)

\* the member read at the cursor
ReadMember(buffer, cursor, repr) ==
    CASE repr = "u64" -> ReadPOD(buffer, cursor, 8)
      [] repr = "u8" -> ReadPOD(buffer, cursor, 1)
      [] repr = "ref" -> <<ReadPOD(buffer, cursor, 8), ReadPOD(buffer, cursor + 8, 4),
                           ReadPOD(buffer, cursor + 12, 1)>>
      [] repr = "str" -> <<ReadPOD(buffer, cursor, 1),
                           SubSeq(buffer, cursor + 6, cursor + 5 + ReadPOD(buffer, cursor + 1, 4))>>

\* Serializer<T>::Write(event, buffer): the bytes appended
RECURSIVE WriteFrom(_, _)
WriteFrom(ev, i) ==
    IF i > Len(Written(ev[1])) THEN <<>>
    ELSE WriteMember(Member(ev, Written(ev[1])[i][1]), Written(ev[1])[i][2]) \o WriteFrom(ev, i + 1)

Write(ev) == WriteFrom(ev, 1)

\* a GetSize that leaves the header of the string out
GetSizeNoHeader(ev) ==
    CASE ev[1] = "TaggedLogInteropEvent" -> 8 + 1 + 16 + 8 + Len(Member(ev, "Msg")[2])
      [] ev[1] = "TaggedLogString" -> 8 + 8 + 8 + Len(Member(ev, "Msg")[2])
      [] OTHER -> Len(Write(ev))

\* Serializer<T>::GetSize
GetSize(ev) ==
    CASE ev[1] = "TaggedLogInteropEvent" -> 8 + 1 + 16 + 8 + 5 + Len(Member(ev, "Msg")[2])
      [] ev[1] = "TaggedLogString" -> 8 + 8 + 8 + 5 + Len(Member(ev, "Msg")[2])
      [] OTHER -> Len(Write(ev))

\* Serializer<T>::Read(callback, buffer, cursor): the members read from i on, as
\* <<member, value>>, and the cursor after the last
RECURSIVE ReadFrom(_, _, _, _)
ReadFrom(T, i, buffer, cursor) ==
    IF i > Len(Reads(T)) THEN <<<<>>, cursor>>
    ELSE Only({<<<<<<Reads(T)[i][1], ReadMember(buffer, cursor, Reads(T)[i][2])>>>> \o r[1], r[2]>> :
               r \in {ReadFrom(T, i + 1, buffer, cursor + SizeAt(buffer, cursor, Reads(T)[i][2]))}})

\* the event the callback is called with, and the cursor after it
Read(T, buffer, cursor) ==
    Only({<<<<T, [i \in DOMAIN Members(T) |->
                    Only({m[2] : m \in {x \in {r[1][j] : j \in DOMAIN r[1]} :
                                           x[1] = Members(T)[i]}})]>>,
            r[2]>> :
          r \in {ReadFrom(T, 1, buffer, cursor)}})

\* HeterogeneousQueue::ForEach with VisitValue: the events the visitor is called
\* with, in order, reading the buffer of a queue of kind k from the cursor on
RECURSIVE ForEachFrom(_, _, _)
ForEachFrom(k, buffer, cursor) ==
    IF cursor >= Len(buffer) THEN <<>>
    ELSE Only({<<r[1]>> \o ForEachFrom(k, buffer, r[2]) :
               r \in {Read(T, buffer, cursor + 1 + (IF IsSizeStatic(T) THEN 0 ELSE 4)) :
                      T \in {QueueTypes(k)[ReadPOD(buffer, cursor, 1) + 1]}}})

ForEach(k) == ForEachFrom(k, queues[k].Buffer, 0)

\* the values of the cursor each time ForEach tests cursor < GetSizeBytes(), from
\* the cursor on; -1 stands for the failed check of the last VisitValue ("type not
\* found")
RECURSIVE CursorsFrom(_, _, _)
CursorsFrom(k, buffer, cursor) ==
    IF cursor >= Len(buffer) THEN <<cursor>>
    ELSE IF ReadPOD(buffer, cursor, 1) + 1 \notin DOMAIN QueueTypes(k) THEN <<cursor, -1>>
    ELSE Only({<<cursor>> \o CursorsFrom(k, buffer, r[2]) :
               r \in {Read(T, buffer, cursor + 1 + (IF IsSizeStatic(T) THEN 0 ELSE 4)) :
                      T \in {QueueTypes(k)[ReadPOD(buffer, cursor, 1) + 1]}}})

\* a Push that puts the record in front of the bytes already in the buffer
QueuePushInFront(k, ev) ==
    /\ Len(pushed["log"]) + Len(pushed["metric"]) + Len(pushed["thread"]) < MaxPush
    /\ queues' = [queues EXCEPT ![k] =
           [Buffer |-> <<IndexOfType(ev[1], k)>>
                       \o (IF IsSizeStatic(ev[1]) THEN <<>> ELSE WritePOD(GetSize(ev), 4))
                       \o Write(ev) \o @.Buffer,
            NbEvents |-> @.NbEvents + 1]]
    /\ pushed' = [pushed EXCEPT ![k] = Append(@, ev)]
    /\ UNCHANGED <<GDispatch, dispatch, streams, blocks, sinks, tls, stack, nev, opsLeft,
                   called, clock, PropertySets, ctx, net>>

\* HeterogeneousQueue::Push(event) on the queue of kind k
QueuePush(k, ev) ==
    /\ Len(pushed["log"]) + Len(pushed["metric"]) + Len(pushed["thread"]) < MaxPush
    /\ queues' = [queues EXCEPT ![k] =
           [Buffer |-> @.Buffer \o <<IndexOfType(ev[1], k)>>
                       \o (IF IsSizeStatic(ev[1]) THEN <<>> ELSE WritePOD(GetSize(ev), 4))
                       \o Write(ev),
            NbEvents |-> @.NbEvents + 1]]
    /\ pushed' = [pushed EXCEPT ![k] = Append(@, ev)]
    /\ UNCHANGED <<GDispatch, dispatch, streams, blocks, sinks, tls, stack, nev, opsLeft,
                   called, clock, PropertySets, ctx, net>>

\* the events the program constructs: their pointers point to the descriptors,
\* the strings and the property sets that exist; the time is the number of events
\* constructed before
Now == 300 + Len(pushed["log"]) + Len(pushed["metric"]) + Len(pushed["thread"])

PropertySetPtrs == {PropertySetAt + i : i \in DOMAIN PropertySets}

Events(k) ==
    CASE k = "log" ->
            {<<"TaggedLogInteropEvent", <<Now, 4, StaticStringRef(target), properties, msg>>>> :
                target \in WideLiterals, properties \in PropertySetPtrs, msg \in Messages}
            \cup {<<"TaggedLogString", <<desc[1], properties, Now, msg>>>> :
                desc \in LogMetadata, properties \in PropertySetPtrs, msg \in Messages}
            \cup {<<"StaticStringRef", <<StaticStringRef(ptr)>>>> : ptr \in AnsiLiterals}
      [] k = "metric" ->
            {<<T, <<desc[1], properties, 258, Now>>>> :
                T \in {"TaggedIntegerMetricEvent", "TaggedFloatMetricEvent"},
                desc \in MetricMetadata, properties \in PropertySetPtrs}
      [] k = "thread" ->
            {<<T, <<desc[1], Now>>>> :
                T \in {"BeginThreadSpanEvent", "EndThreadSpanEvent"}, desc \in SpanMetadata}
            \cup {<<T, <<desc[1], Now, StaticStringRef(name)>>>> :
                T \in {"BeginThreadNamedSpanEvent", "EndThreadNamedSpanEvent"},
                desc \in SpanLocation, name \in Names}

\* ------------------------------------------------- dependencies of a block
\* An extractor is <<Ids, Dependencies>>: the addresses seen, and the records
\* pushed into the dependency queue, each <<type, id>>.

\* a set of addresses that never holds the one asked for
AlreadyInSetNever(Ids, id) == FALSE

\* Ids.Add(id, &alreadyInSet)
AlreadyInSet(Ids, id) == id \in Ids

\* operator()(const StaticStringRef& str)
VisitString(st, ptr) ==
    IF AlreadyInSet(st[1], ptr) THEN st
    ELSE <<st[1] \cup {ptr}, Append(st[2], <<"StaticStringDependency", ptr>>)>>

\* operator()(const StaticStringRef&) on each of the strings, in order
RECURSIVE VisitStrings(_, _)
VisitStrings(st, strings) ==
    IF strings = <<>> THEN st
    ELSE Only({VisitStrings(VisitString(v, strings[1]), Tail(strings)) : v \in {st}})

\* an extractor that pushes the record of an object before the strings it points to
VisitObjectLate(st, id, strings, dependency) ==
    IF AlreadyInSet(st[1], id) THEN st
    ELSE VisitStrings(<<st[1] \cup {id}, Append(st[2], <<dependency, id>>)>>, strings)

\* operator()(const LogMetadata*), (const MetricMetadata*), (const SpanMetadata*),
\* (const SpanLocation*), (const PropertySet*): an object seen for the first time
\* has its strings visited, then its record pushed
VisitObject(st, id, strings, dependency) ==
    IF AlreadyInSet(st[1], id) THEN st
    ELSE Only({<<v[1], Append(v[2], <<dependency, id>>)>> :
               v \in {VisitStrings(<<st[1] \cup {id}, st[2]>>, strings)}})

\* Prop.Key, Prop.Value of each pair of the context, in iteration order: the
\* FNameEntry of FName n is at address n
ContextStrings(Context) ==
    [i \in 1..2 * Len(Context) |-> Context[(i + 1) \div 2][2 - (i % 2)]]

\* operator()(const PropertySet* Properties)
VisitProperties(st, ptr) ==
    VisitObject(st, ptr, ContextStrings(PropertySets[ptr - PropertySetAt]), "PropertySetDependency")

\* operator()(event) of ExtractLogDependencies, ExtractMetricDependencies and
\* ExtractThreadDependencies
VisitEvent(st, ev) ==
    CASE ev[1] = "TaggedLogInteropEvent" ->
            VisitProperties(VisitString(st, Member(ev, "Target")[1]), Member(ev, "Properties"))
      [] ev[1] = "TaggedLogString" ->
            VisitProperties(VisitObject(st, Member(ev, "Desc"), Metadata(Member(ev, "Desc")),
                                        "LogMetadataDependency"),
                            Member(ev, "Properties"))
      [] ev[1] = "StaticStringRef" -> VisitString(st, Member(ev, "Ref")[1])
      [] ev[1] \in {"TaggedIntegerMetricEvent", "TaggedFloatMetricEvent"} ->
            VisitProperties(VisitObject(st, Member(ev, "Desc"), Metadata(Member(ev, "Desc")),
                                        "MetricMetadataDependency"),
                            Member(ev, "Properties"))
      [] ev[1] \in {"BeginThreadSpanEvent", "EndThreadSpanEvent"} ->
            VisitObject(st, Member(ev, "Desc"), Metadata(Member(ev, "Desc")),
                        "SpanMetadataDependency")
      [] ev[1] \in {"BeginThreadNamedSpanEvent", "EndThreadNamedSpanEvent"} ->
            VisitString(VisitObject(st, Member(ev, "Desc"), Metadata(Member(ev, "Desc")),
                                    "SpanLocationDependency"),
                        Member(ev, "Name")[1])

\* block.GetEvents().ForEach(*extractDependencies), on the events from i on
RECURSIVE VisitFrom(_, _, _)
VisitFrom(st, events, i) ==
    IF i > Len(events) THEN st
    ELSE Only({VisitFrom(VisitEvent(v, events[i]), events, i + 1) : v \in {st}})

\* ExtractBlockDependencies(block): the dependency queue of the events of the
\* queue of kind k
ExtractBlockDependencies(k) == Only({VisitFrom(<<{}, <<>>>>, events, 1)[2] : events \in {ForEach(k)}})

\* ------------------------------------------------------------ specifications
\* the steps of Dispatch::Init and of the emission of events by thread t
Step(t) ==
    \/ DispatchInit(t)
    \/ DispatchInitLogStream(t)
    \/ DispatchInitMetricStream(t)
    \/ DispatchInitEnd(t)
    \/ Log(t)
    \/ IntMetric(t)
    \/ QueueEventLock(t)
    \/ QueueLogEntry(t)
    \/ QueueMetric(t)
    \/ FlushImplSpan(t)
    \/ FlushImplBody(t)
    \/ FlushImplReturn(t)
    \/ FlushImplEnd(t)
    \/ PublishThreadStream(t)
    \/ AssignThreadStream(t)
    \/ QueueThreadEvent(t)
    \/ QueueThreadEventFlush(t)
    \/ OnStartup(t)
    \/ OnStartupIncrement(t)
    \/ OnStartupEnqueue(t)
    \/ OnInitStream(t)
    \/ OnInitStreamEnqueue(t)
    \/ IncrementQueueSize(t)
    \/ OnProcessBlock(t)
    \/ ShouldSampleThreadBlock(t)
    \/ OnProcessBlockSample(t)
    \/ OnProcessBlockIncrement(t)
    \/ OnProcessBlockEnqueue(t)
    \/ OnProcessBlockEnd(t)

\* the steps of Dispatch::Shutdown by thread t
ShutdownStep(t) ==
    \/ Shutdown(t)
    \/ OnShutdown(t)
    \/ OnShutdownRequest(t)
    \/ OnShutdownWait(t)
    \/ ShutdownClear(t)

\* the steps of FlushMonitor::Flush by thread t
FlushMonitorStep(t) ==
    \/ FlushMonitorFlushLog(t)
    \/ FlushMonitorFlushMetric(t)
    \/ ForEachThreadStream(t)
    \/ FlushMonitorDone(t)

\* one application thread and every entry point; the worker thread of the sink
\* waits for the shutdown request
Init == Start(<<MaxOps>>, {Sampling(TRUE, TRUE, TRUE), Sampling(FALSE, FALSE, FALSE)})

Next ==
    \/ \E t \in AppThreads :
          \/ CallInit(t)
          \/ CallInitLarge(t)
          \/ CallLog(t)
          \/ CallIntMetric(t)
          \/ CallBeginScope(t)
          \/ CallFlushLogStream(t)
          \/ CallFlushMetricStream(t)
          \/ CallFlushCurrentThreadStream(t)
          \/ CallShutdown(t)
          \/ Step(t)
          \/ FlushStream(t)
          \/ FlushStreamLock(t)
          \/ FlushCurrentThreadStream(t)
          \/ FlushThreadStreamReturn(t)
          \/ ShutdownStep(t)
    \/ \E k \in Sinks : RunExit(Worker(k))

Spec == Init /\ [][Next]_vars

\* two application threads: the first initializes, then both log and record metrics
InitConc == Start(<<MainOps, OtherOps>>, {Sampling(TRUE, FALSE, FALSE)})

NextConc ==
    \E t \in AppThreads :
        \/ t = 1 /\ ~Initialized /\ CallInit(t)
        \/ Initialized /\ CallLog(t)
        \/ Initialized /\ CallIntMetric(t)
        \/ Initialized /\ CallFlushLogStream(t)
        \/ Initialized /\ CallFlushCurrentThreadStream(t)
        \/ Step(t)
        \/ QueueThreadEventPush(t)
        \/ FlushStream(t)
        \/ FlushStreamLock(t)
        \/ FlushCurrentThreadStream(t)
        \/ FlushThreadStreamReturn(t)
        \/ FlushCurrentThreadStreamFlush(t)

SpecConc == InitConc /\ [][NextConc]_vars

\* one application thread and the worker thread of the sink, whose flush period
\* elapses TickOps times
InitTick == Start(<<TickMainOps, 0, TickOps>>, {Sampling(TRUE, FALSE, FALSE)})

NextTick ==
    \E t \in Threads :
        \/ t = 1 /\ CallInit(t)
        \/ t = 1 /\ CallLog(t)
        \/ t = 1 /\ CallBeginScope(t)
        \/ Step(t)
        \/ QueueThreadEventPush(t)
        \/ FlushStream(t)
        \/ FlushStreamLock(t)
        \/ FlushCurrentThreadStream(t)
        \/ FlushMonitorStep(t)
        \/ t \notin AppThreads /\ Initialized /\ RunTick(t)

SpecTick == InitTick /\ [][NextTick]_vars

\* one application thread and the worker thread of the sink, which calls Tick at
\* once, a moment later or a flush period later
InitPeriod == Start(<<PeriodMainOps, 0, PeriodTicks>>, {Sampling(TRUE, FALSE, FALSE)})

NextPeriod ==
    \E t \in Threads :
        \/ t = 1 /\ CallInit(t)
        \/ t = 1 /\ CallLog(t)
        \/ t = 1 /\ CallBeginScope(t)
        \/ Step(t)
        \/ QueueThreadEventPush(t)
        \/ FlushStream(t)
        \/ FlushStreamLock(t)
        \/ FlushCurrentThreadStream(t)
        \/ FlushMonitorStep(t)
        \/ t \notin AppThreads /\ Initialized /\ \E Seconds \in {clock, clock + 1, clock + FlushPeriod} : Tick(t, Seconds)

SpecPeriod == InitPeriod /\ [][NextPeriod]_vars

\* a PropertySetStore on its own: Get is called with any context, in any order
InitStore == Start(<<>>, {Sampling(TRUE, TRUE, TRUE)})

NextStore == \E Context \in Contexts : PropertySetStoreGet(Context)

SpecStore == InitStore /\ [][NextStore]_vars

\* queues on their own: the program interns the contexts it tags events with, and
\* pushes events of every type into a queue of each kind
QueueContexts == {<<>>, <<<<1, 1>>, <<2, 1>>>>}

InitQueue == Start(<<>>, {Sampling(TRUE, TRUE, TRUE)})

NextQueue ==
    \/ \E Context \in QueueContexts : PropertySetStoreGet(Context)
    \/ \E k \in Kinds : \E ev \in Events(k) : QueuePush(k, ev)

SpecQueue == InitQueue /\ [][NextQueue]_vars

\* the batches tried: the empty one, and those of MaxBatch entries of one value
BatchEntries ==
    {<<>>} \cup {e \in [1..MaxBatch -> Names \X Names] : \A i \in 1..MaxBatch : e[i][2] = e[1][2]}

\* a DefaultContext on a store that other callers use too
InitContext == Start(<<>>, {Sampling(TRUE, TRUE, TRUE)})

NextContext ==
    \/ DefaultContextNew
    \/ \E Key \in Names, Value \in Names : DefaultContextSet(Key, Value)
    \/ \E Entries \in BatchEntries : DefaultContextSetBatch(Entries)
    \/ \E Key \in Names : DefaultContextUnset(Key)
    \/ DefaultContextClear
    \/ \E Other \in QueueContexts \ {<<>>} : PropertySetStoreGet(Other)

SpecContext == InitContext /\ [][NextContext]_vars

\* the steps of Dispatch::Init, of the metrics and spans the sink emits and of the
\* rotations these cause, by thread t: the steps of Step that a process takes when
\* it emits no log entry and flushes no stream itself
SinkStep(t) ==
    \/ DispatchInit(t)
    \/ DispatchInitLogStream(t)
    \/ DispatchInitMetricStream(t)
    \/ DispatchInitEnd(t)
    \/ IntMetric(t)
    \/ QueueEventLock(t)
    \/ QueueMetric(t)
    \/ FlushImplSpan(t)
    \/ FlushImplBody(t)
    \/ FlushImplEnd(t)
    \/ PublishThreadStream(t)
    \/ AssignThreadStream(t)
    \/ QueueThreadEvent(t)
    \/ QueueThreadEventPush(t)
    \/ QueueThreadEventFlush(t)
    \/ OnStartup(t)
    \/ OnStartupIncrement(t)
    \/ OnStartupEnqueue(t)
    \/ OnInitStream(t)
    \/ OnInitStreamEnqueue(t)
    \/ IncrementQueueSize(t)
    \/ OnProcessBlock(t)
    \/ ShouldSampleThreadBlock(t)
    \/ OnProcessBlockSample(t)
    \/ OnProcessBlockEnd(t)

\* one application thread initializes while the worker of the sink runs; the
\* authenticator becomes ready at any moment, or never
InitSink == Start(<<SinkOps>>, {Sampling(TRUE, FALSE, FALSE)})

NextSink ==
    \/ CallInit(1)
    \/ \E t \in Threads : SinkStep(t)
    \/ \E k \in Sinks :
          \/ OnAuthUpdated(k)
          \/ RunStep(Worker(k))
          \/ SendBinaryRequest(Worker(k), TRUE, TRUE)

SpecSink == InitSink /\ [][NextSink]_vars

\* the threads run whenever they can: the wait of the worker has a timeout
SpecSinkFair == SpecSink /\ WF_vars(NextSink)

\* the module shutdown and the crash reporter: the first thread initializes and
\* shuts down; the second logs, flushes the log stream and shuts down, as
\* FSystemErrorReporter::OnSystemError does
InitShutdown == Start(<<ShutdownMainOps, ShutdownOtherOps>>, {Sampling(TRUE, FALSE, FALSE)})

NextShutdown ==
    \/ \E t \in AppThreads :
          \/ t = 1 /\ dispatch = <<>> /\ CallInit(t)
          \/ dispatch # <<>> /\ (Initialized \/ GDispatch = 0) /\ CallShutdown(t)
          \/ t # 1 /\ Initialized /\ CallLog(t)
          \/ t # 1 /\ Initialized /\ CallFlushLogStream(t)
          \/ Step(t)
          \/ QueueThreadEventPush(t)
          \/ FlushStream(t)
          \/ FlushStreamLock(t)
          \/ ShutdownStep(t)
    \/ \E k \in Sinks : RunExit(Worker(k))

SpecShutdown == InitShutdown /\ [][NextShutdown]_vars

\* the application initializes, with buffers of either size, and shuts down while
\* the worker of the sink runs; the authenticator becomes ready at any moment once
\* Init has returned, or never
InitStop == Start(<<StopOps>>, {Sampling(TRUE, FALSE, FALSE)})

NextStop ==
    \/ dispatch = <<>> /\ CallInit(1)
    \/ dispatch = <<>> /\ CallInitLarge(1)
    \/ Initialized /\ CallShutdown(1)
    \/ \E t \in Threads : SinkStep(t)
    \/ Log(1)
    \/ QueueLogEntry(1)
    \/ ShutdownStep(1)
    \/ \E k \in Sinks :
          \/ Initialized /\ OnAuthUpdated(k)
          \/ RunStep(Worker(k))
          \/ RunExit(Worker(k))
          \/ SendBinaryRequest(Worker(k), TRUE, TRUE)

SpecStop == InitStop /\ [][NextStop]_vars

\* the threads run whenever they can: the wait of the worker has a timeout
SpecStopFair == SpecStop /\ WF_vars(NextStop)

\* the requests of the worker and their completions on another thread: the
\* authenticator becomes ready once Init has returned; signing, the start of a
\* request and its completion succeed or fail for the first MaxCompleted requests,
\* and the later requests are signed, started and left in flight
Responses == {0, 200, 500}

\* the thread of the HTTP module that completes the requests
HttpThread == 2

Outcomes == IF Len(http) < MaxCompleted THEN BOOLEAN ELSE {TRUE}

InitHttp == Start(<<HttpOps>>, {Sampling(TRUE, FALSE, FALSE)})

NextHttp ==
    \/ CallInit(1)
    \/ \E t \in Threads : SinkStep(t)
    \/ \E r \in DOMAIN http : \E response \in Responses : \E bSucceeded \in BOOLEAN :
          HttpComplete(HttpThread, r, response, bSucceeded)
    \/ \E malformed \in BOOLEAN, started \in BOOLEAN :
          OnProcessRequestComplete(HttpThread, malformed, started)
    \/ \E k \in Sinks :
          \/ Idle(1) /\ opsLeft[1] = 0 /\ OnAuthUpdated(k)
          \/ RunStep(Worker(k))
          \/ \E signed \in Outcomes, started \in Outcomes :
                SendBinaryRequest(Worker(k), signed, started)

SpecHttp == InitHttp /\ [][NextHttp]_vars

\* ---------------------------------------------------------------- properties
\* the blocks stream s has held so far; blocks are numbered in the order of creation
BlocksOf(s) == {b \in DOMAIN blocks : blocks[b].Stream = s}

\* the block that was swapped out when block b became current, 0 for a first block
Previous(b) ==
    LET P == {p \in BlocksOf(blocks[b].Stream) : p < b}
    IN IF P = {} THEN 0 ELSE CHOOSE p \in P : \A q \in P : q <= p

\* the threshold the stream of block b had when b became its current block
NaturalThreshold(b) == blocks[b].Capacity - Padding(streams[blocks[b].Stream].kind)

\* C1: in every stream the first block has object offset 0 and every later block
\* has the object offset of the block it replaced plus the number of events of
\* that block, whatever rotated the stream (threshold, explicit flush, MarkFull)
OffsetContiguity ==
    \A b \in DOMAIN blocks :
        blocks[b].ObjectOffset =
            IF Previous(b) = 0 THEN 0
            ELSE blocks[Previous(b)].ObjectOffset + blocks[Previous(b)].NbEvents

\* a thread stream of an application thread was rotated below its threshold (the
\* FlushMonitor had marked it full), the log stream was rotated, and a stream is
\* at its third block
OffsetContiguityWitness ==
    /\ \E b \in DOMAIN blocks :
          /\ Previous(b) # 0
          /\ streams[blocks[b].Stream].kind = "thread"
          /\ streams[blocks[b].Stream].owner \in AppThreads
          /\ blocks[Previous(b)].SizeBytes < NaturalThreshold(Previous(b))
          /\ blocks[b].ObjectOffset > 0
    /\ \E b \in DOMAIN blocks : streams[blocks[b].Stream].kind = "log" /\ Previous(b) # 0
    /\ \E b \in DOMAIN blocks : Previous(b) # 0 /\ Previous(Previous(b)) # 0

\* the invocations of EventSink methods that hand block b to a sink
HandOffs(b) ==
    {c \in {<<k, i>> : k \in Sinks, i \in 1 .. Len(sinks[1].calls)} :
        /\ c[2] \in DOMAIN sinks[c[1]].calls
        /\ sinks[c[1]].calls[c[2]].m \in {"OnProcessLogBlock", "OnProcessMetricBlock", "OnProcessThreadBlock"}
        /\ sinks[c[1]].calls[c[2]].a = b}

IsCurrent(b) == streams[blocks[b].Stream].CurrentBlock = b

\* the places where event ev is stored
Occurrences(ev) ==
    {o \in UNION {{<<b, i>> : i \in DOMAIN blocks[b].Events} : b \in DOMAIN blocks} :
        blocks[o[1]].Events[o[2]] = ev}

\* C2: whatever the interleaving of the threads that log, record metrics and flush,
\* every event pushed so far is stored exactly once, in a block that is either the
\* current block of its stream or a block handed to the sink exactly once, and
\* the event count of a block is the number of events it stores
NoLostOrDuplicatedEvents ==
    /\ \A t \in Threads : \A n \in 1 .. nev[t] : Cardinality(Occurrences(<<t, n>>)) = 1
    /\ \A b \in DOMAIN blocks :
          /\ blocks[b].NbEvents = Len(blocks[b].Events)
          /\ Cardinality(HandOffs(b)) = IF IsCurrent(b) THEN 0 ELSE 1

\* a log block that holds entries of both application threads was handed to the
\* sink while the current log block holds a further entry
NoLostOrDuplicatedEventsWitness ==
    \E b \in DOMAIN blocks :
        /\ streams[blocks[b].Stream].kind = "log"
        /\ ~IsCurrent(b)
        /\ \E i, j \in DOMAIN blocks[b].Events :
              blocks[b].Events[i][1] = 1 /\ blocks[b].Events[j][1] = 2
        /\ blocks[streams[blocks[b].Stream].CurrentBlock].NbEvents > 0

\* the threads that hold the log mutex or the metric mutex of a dispatch
Holders == UNION {{dispatch[d].LogMutex, dispatch[d].MetricMutex} : d \in DOMAIN dispatch}

\* thread t has entered OnProcessLogBlock, OnProcessMetricBlock or OnProcessThreadBlock
InHandOff(t) == \E i \in DOMAIN stack[t] : stack[t][i].pc = "OnProcessBlock"

\* C3: a thread that has invoked a block hand-off of the sink holds neither the log
\* mutex nor the metric mutex, on every path that reaches a hand-off
LockReleasedBeforeHandOff == \A t \in Threads : InHandOff(t) => t \notin Holders

\* the hand-offs of blocks of stream s recorded by the sinks sk
HandedOf(sk, s) ==
    {c \in {<<k, i>> : k \in Sinks, i \in 1 .. Len(sk[1].calls)} :
        /\ c[2] \in DOMAIN sk[c[1]].calls
        /\ sk[c[1]].calls[c[2]].m \in {"OnProcessLogBlock", "OnProcessMetricBlock", "OnProcessThreadBlock"}
        /\ blocks[sk[c[1]].calls[c[2]].a].Stream = s}

\* thread t executes Flush*StreamImpl on a stream whose current block has no event
FlushesEmpty(t) ==
    /\ At(t, "FlushImpl_body")
    /\ blocks[streams[Top(t).s].CurrentBlock].NbEvents = 0
    /\ stack'[t] # stack[t]

SealedBlocksReadOnly ==
    [][\A b \in DOMAIN blocks :
          ~IsCurrent(b) =>
              /\ blocks'[b].Events = blocks[b].Events
              /\ blocks'[b].NbEvents = blocks[b].NbEvents
              /\ blocks'[b].SizeBytes = blocks[b].SizeBytes]_vars

\* the log stream and a thread stream have each a sealed block, and events were
\* pushed into the log stream by both threads after its block was sealed
SealedBlocksReadOnlyWitness ==
    /\ \E b \in DOMAIN blocks :
          /\ streams[blocks[b].Stream].kind = "log"
          /\ ~IsCurrent(b)
          /\ \E i, j \in DOMAIN blocks[streams[blocks[b].Stream].CurrentBlock].Events :
                /\ blocks[streams[blocks[b].Stream].CurrentBlock].Events[i][1] = 1
                /\ blocks[streams[blocks[b].Stream].CurrentBlock].Events[j][1] = 2
    /\ \E b \in DOMAIN blocks : streams[blocks[b].Stream].kind = "thread" /\ ~IsCurrent(b)

\* C6: a block handed to the sink is no longer current and was closed exactly
\* once, with its end time set, when the hand-off is invoked; a block that is
\* not current was closed exactly once; a current block was never closed
BlockLifecycle ==
    \A b \in DOMAIN blocks :
        /\ HandOffs(b) # {} => ~IsCurrent(b) /\ blocks[b].Closes = 1 /\ blocks[b].End # 0
        /\ ~IsCurrent(b) => blocks[b].Closes = 1 /\ blocks[b].End >= blocks[b].Begin
        /\ IsCurrent(b) => blocks[b].Closes = 0 /\ blocks[b].End = 0

\* the sampling controller is about to read the end time of a thread block that
\* was handed to the sink, and a log block and a metric block were handed too
BlockLifecycleWitness ==
    /\ \E t \in AppThreads :
          /\ At(t, "OPB_sample")
          /\ Top(t).k = "thread"
          /\ HandOffs(Top(t).b) # {}
          /\ sinks[Top(t).sk].Sampling["thread"]
    /\ \E b \in DOMAIN blocks : streams[blocks[b].Stream].kind = "log" /\ HandOffs(b) # {}
    /\ \E b \in DOMAIN blocks : streams[blocks[b].Stream].kind = "metric" /\ HandOffs(b) # {}

\* thread t takes the step and returns from the function it executes
Returns(t) == stack'[t] = SubSeq(stack[t], 1, Len(stack[t]) - 1)

\* C7: while there is no dispatch (before Init, after Shutdown) the first step of
\* Log, LogInterop, IntMetric, FloatMetric, FlushLogStream and FlushMetricStream is
\* the return of the call: no event is pushed, no stream, block or mutex changes
\* and no method of a sink is invoked
UninitializedEmissionIsNoOp ==
    [][\A t \in AppThreads :
          (/\ stack[t] # <<>>
           /\ Top(t).pc \in {"Log", "IntMetric", "FlushStream"}
           /\ GDispatch = 0
           /\ stack'[t] # stack[t])
          => /\ Returns(t)
             /\ UNCHANGED <<GDispatch, dispatch, streams, blocks, sinks, tls, nev>>]_vars

\* after Init and Shutdown the thread has called Log and FlushLogStream and both
\* have returned; the log stream still has the block Shutdown left
UninitializedEmissionIsNoOpWitness ==
    \E t \in AppThreads :
        /\ Idle(t)
        /\ GDispatch = 0
        /\ Len(called[t]) = 4
        /\ called[t][1].pc = "Init"
        /\ called[t][2].pc = "Shutdown"
        /\ called[t][3].pc = "Log"
        /\ called[t][4].pc = "FlushStream" /\ called[t][4].k = "log"
        /\ Len(dispatch) = 1

\* the invocations of method m recorded by the sinks
Invocations(m) ==
    {c \in {<<k, i>> : k \in Sinks, i \in 1 .. Len(sinks[1].calls)} :
        c[2] \in DOMAIN sinks[c[1]].calls /\ sinks[c[1]].calls[c[2]].m = m}

\* C9: an Init called while a dispatch exists returns at once, whatever its
\* arguments: the global dispatch, the streams, their blocks and the sink stay as
\* they are and OnStartup, OnInitLogStream and OnInitMetricStream are not invoked
DoubleInitIsNoOp ==
    [][\A t \in AppThreads :
          (At(t, "Init") /\ GDispatch # 0 /\ stack'[t] # stack[t])
          => /\ Returns(t)
             /\ UNCHANGED <<GDispatch, dispatch, streams, blocks, sinks, tls, nev>>]_vars

\* Init was called twice, the second time with other buffer sizes, and has
\* returned twice: there is one dispatch and the sink was started once
DoubleInitIsNoOpWitness ==
    \E t \in AppThreads :
        /\ Idle(t)
        /\ Len(called[t]) = 2
        /\ called[t][1].pc = "Init"
        /\ called[t][2].pc = "Init"
        /\ called[t][2].b # called[t][1].b
        /\ GDispatch = 1
        /\ Len(dispatch) = 1
        /\ dispatch[1].LogBufferSize = called[t][1].b.log
        /\ Cardinality(Invocations("OnStartup")) = 1
        /\ Cardinality(Invocations("OnInitLogStream")) = 1
        /\ Cardinality(Invocations("OnInitMetricStream")) = 1

\* Shutdown has completed: a dispatch was constructed, none is installed and no
\* thread is inside Dispatch::Shutdown
ShutdownCompleted ==
    /\ dispatch # <<>>
    /\ GDispatch = 0
    /\ \A t \in Threads : \A i \in DOMAIN stack[t] : stack[t][i].pc # "Shutdown_clear"

\* C8: once Shutdown has completed, a step of BeginScope, EndScope, BeginNamedSpan
\* or EndNamedSpan, on any thread, pushes no event into any block and invokes no
\* method of a sink
SpanAfterShutdownIsNoOp ==
    [][\A t \in AppThreads :
          (/\ ShutdownCompleted
           /\ stack[t] # <<>>
           /\ Top(t).pc \in {"QueueThreadEvent", "QTE_push", "QTE_flush"}
           /\ stack'[t] # stack[t])
          => UNCHANGED <<blocks, sinks>>]_vars

\* the hand-offs of blocks recorded by the sinks sk
HandOffCalls(sk) ==
    {c \in {<<k, i>> : k \in Sinks, i \in 1 .. Len(sk[1].calls)} :
        /\ c[2] \in DOMAIN sk[c[1]].calls
        /\ sk[c[1]].calls[c[2]].m \in {"OnProcessLogBlock", "OnProcessMetricBlock", "OnProcessThreadBlock"}}

\* thread t is inside Dispatch::Shutdown on an initialized dispatch
InShutdown(t) ==
    \/ At(t, "Shutdown") /\ GDispatch # 0
    \/ \E i \in DOMAIN stack[t] : stack[t][i].pc = "Shutdown_clear"

\* C10: while a thread executes Shutdown on an initialized dispatch no block is
\* handed to a sink; when Shutdown returns the global dispatch is null and
\* OnShutdown was invoked once for each dispatch that was started; Shutdown without
\* a dispatch returns at once and invokes no method of a sink
ShutdownContract ==
    [][\A t \in AppThreads :
          /\ InShutdown(t) => HandOffCalls(sinks') = HandOffCalls(sinks)
          /\ (At(t, "Shutdown_clear") /\ stack'[t] # stack[t])
             => /\ GDispatch' = 0
                /\ Cardinality(Invocations("OnShutdown")) = Cardinality(Invocations("OnStartup"))
          /\ (At(t, "Shutdown") /\ GDispatch = 0 /\ stack'[t] # stack[t])
             => Returns(t) /\ UNCHANGED <<GDispatch, dispatch, streams, blocks, sinks, tls, nev>>]_vars

\* C11: PropertySetStore never holds two property sets whose contexts have the
\* same key-value pairs, whatever the order the pairs were inserted in: two Get
\* calls with structurally equal contexts return the same pointer.
CanonicalContexts ==
    \A i, j \in DOMAIN PropertySets :
        Matches(PropertySets[i], PropertySets[j]) => i = j

\* C14: ForEach calls the visitor once per pushed event, with the type and the
\* member values that were pushed, in push order, for queues that mix types of
\* static and of dynamic size.
QueueRoundTrip ==
    \A k \in Kinds :
        /\ ForEach(k) = pushed[k]
        /\ queues[k].NbEvents = Len(pushed[k])

QueueRoundTripWitness ==
    /\ Len(pushed["log"]) = 3
    /\ {pushed["log"][i][1] : i \in 1..3} =
           {"TaggedLogInteropEvent", "TaggedLogString", "StaticStringRef"}
    /\ \E i \in 1..3 : /\ pushed["log"][i][1] = "TaggedLogString"
                       /\ Len(Member(pushed["log"][i], "Msg")[2]) > 0
    /\ ForEach("log") = pushed["log"]

\* the objects an event points to, and the strings an object points to
PointedBy(ev) ==
    {ev[2][i] : i \in {j \in DOMAIN ev[2] : Members(ev[1])[j] \in {"Desc", "Properties"}}}
    \cup {ev[2][i][1] : i \in {j \in DOMAIN ev[2] : Members(ev[1])[j] \in {"Target", "Name", "Ref"}}}

StringsOf(id) ==
    IF id \in PropertySetPtrs
    THEN UNION {{pair[1], pair[2]} : pair \in {PropertySets[id - PropertySetAt][i] :
                                                 i \in DOMAIN PropertySets[id - PropertySetAt]}}
    ELSE IF id \in Names \cup AnsiLiterals \cup WideLiterals THEN {}
    ELSE {Metadata(id)[i] : i \in DOMAIN Metadata(id)}

Reachable(events) ==
    LET direct == UNION {PointedBy(events[i]) : i \in DOMAIN events}
    IN  direct \cup UNION {StringsOf(id) : id \in direct}

\* the descriptors of the events in the order of their first reference
RECURSIVE FirstReferences(_, _)
FirstReferences(events, seen) ==
    IF events = <<>> THEN <<>>
    ELSE IF "Desc" \in {Members(events[1][1])[i] : i \in DOMAIN Members(events[1][1])}
            /\ Member(events[1], "Desc") \notin seen
         THEN <<Member(events[1], "Desc")>>
              \o FirstReferences(Tail(events), seen \cup {Member(events[1], "Desc")})
         ELSE FirstReferences(Tail(events), seen)

IsDescriptorRecord(dep) ==
    dep[1] \in {"LogMetadataDependency", "MetricMetadataDependency",
                "SpanMetadataDependency", "SpanLocationDependency"}

DependenciesResolvable ==
    \A k \in Kinds :
        LET deps == ExtractBlockDependencies(k)
        IN  \A p \in DOMAIN deps :
                deps[p][1] # "StaticStringDependency" =>
                    \A str \in StringsOf(deps[p][2]) :
                        \E q \in 1..(p - 1) : deps[q] = <<"StaticStringDependency", str>>

DependenciesResolvableWitness ==
    /\ \E p \in DOMAIN ExtractBlockDependencies("log") :
          /\ ExtractBlockDependencies("log")[p][1] = "PropertySetDependency"
          /\ StringsOf(ExtractBlockDependencies("log")[p][2]) # {}
    /\ \E p \in DOMAIN ExtractBlockDependencies("log") :
          ExtractBlockDependencies("log")[p][1] = "LogMetadataDependency"
    /\ \E p \in DOMAIN ExtractBlockDependencies("thread") :
          ExtractBlockDependencies("thread")[p][1] = "SpanLocationDependency"

\* C15: the threshold of a stream is the capacity of its current block minus the
\* padding of its kind when the stream is constructed and whenever its blocks are
\* swapped; otherwise it only changes to 0 (MarkFull) and stays 0 until the next
\* swap; a stream whose threshold is 0 is full, even when its block is empty.
FullnessThreshold ==
    [][\A s \in DOMAIN streams' :
          LET natural == blocks'[streams'[s].CurrentBlock].Capacity - Padding(streams'[s].kind)
              swapped == s \notin DOMAIN streams
                         \/ streams'[s].CurrentBlock # streams[s].CurrentBlock
          IN  /\ swapped => streams'[s].FullThreshold = natural
              /\ ~swapped => streams'[s].FullThreshold \in {streams[s].FullThreshold, 0}
              /\ streams'[s].FullThreshold \in {natural, 0}
              /\ streams'[s].FullThreshold = 0 => IsFull(blocks, s)']_vars

FullnessThresholdWitness ==
    \E s \in DOMAIN streams, b \in DOMAIN blocks :
        /\ blocks[b].Stream = s
        /\ Previous(b) # 0
        /\ blocks[Previous(b)].SizeBytes < NaturalThreshold(Previous(b))
        /\ streams[s].CurrentBlock = b
        /\ streams[s].FullThreshold = NaturalThreshold(b)
        /\ ~IsFull(blocks, s)


\* C16: the threshold is advisory and checked after the push.  Every event a thread
\* constructs is appended to the current block of its stream, whatever the size of
\* the block; when the block is then below the threshold of a stream that is not
\* marked full, the emission returns at once, having swapped no block and handed
\* nothing to the sink; a block that has reached its threshold stays current only
\* as long as the emission that pushed its last event is still rotating the
\* stream, and the block that is swapped out keeps that event.
ThresholdCheckedAfterPush ==
    [][\A t \in Threads :
          /\ nev'[t] # nev[t] =>
                \E s \in DOMAIN streams :
                    LET b == streams[s].CurrentBlock
                    IN  /\ blocks'[b].Events = Append(blocks[b].Events, <<t, nev'[t]>>)
                        /\ (blocks'[b].SizeBytes < streams[s].FullThreshold)
                              => (streams' = streams /\ sinks' = sinks /\ stack' = Ret(t))
          /\ \A s \in DOMAIN streams' :
                LET b == streams'[s].CurrentBlock
                IN  (/\ blocks'[b].NbEvents > 0
                     /\ blocks'[b].Events[blocks'[b].NbEvents][1] = t
                     /\ blocks'[b].SizeBytes >= blocks'[b].Capacity - Padding(streams'[s].kind))
                    => \E i \in DOMAIN stack'[t] : stack'[t][i].s = s
          /\ \A s \in DOMAIN streams :
                streams'[s].CurrentBlock # streams[s].CurrentBlock
                => blocks'[streams[s].CurrentBlock].Events = blocks[streams[s].CurrentBlock].Events]_vars

\* the same, as long as GDispatch is set
ThresholdCheckedWhileInitialized ==
    [][GDispatch' # 0 => \A t \in Threads :
          /\ nev'[t] # nev[t] =>
                \E s \in DOMAIN streams :
                    LET b == streams[s].CurrentBlock
                    IN  /\ blocks'[b].Events = Append(blocks[b].Events, <<t, nev'[t]>>)
                        /\ (blocks'[b].SizeBytes < streams[s].FullThreshold)
                              => (streams' = streams /\ sinks' = sinks /\ stack' = Ret(t))
          /\ \A s \in DOMAIN streams' :
                LET b == streams'[s].CurrentBlock
                IN  (/\ blocks'[b].NbEvents > 0
                     /\ blocks'[b].Events[blocks'[b].NbEvents][1] = t
                     /\ blocks'[b].SizeBytes >= blocks'[b].Capacity - Padding(streams'[s].kind))
                    => \E i \in DOMAIN stack'[t] : stack'[t][i].s = s
          /\ \A s \in DOMAIN streams :
                streams'[s].CurrentBlock # streams[s].CurrentBlock
                => blocks'[streams[s].CurrentBlock].Events = blocks[streams[s].CurrentBlock].Events]_vars


\* the events of the blocks B, the blocks taken by increasing object_offset
RECURSIVE ConcatFrom(_, _)
ConcatFrom(B, acc) ==
    IF B = {} THEN acc
    ELSE LET b == CHOOSE b \in B : \A c \in B : blocks[b].ObjectOffset <= blocks[c].ObjectOffset
         IN  ConcatFrom(B \ {b}, acc \o blocks[b].Events)

StreamEvents(s) == ConcatFrom(BlocksOf(s), <<>>)

\* C17: total order within a stream.  The object_offset of the blocks of a stream
\* are all different, and the concatenation of their events by increasing
\* object_offset only ever changes by the event being pushed going to its end
\* (for the log and the metric stream, by the thread that holds the mutex): it is
\* the order of the pushes, and two events of one thread are in it in the order
\* the thread constructed them, whatever blocks they are in.
TotalOrderWithinStream ==
    [][\A s \in DOMAIN streams' :
          \A old \in {IF s \in DOMAIN streams THEN StreamEvents(s) ELSE <<>>}, new \in {StreamEvents(s)'} :
              /\ \A b \in BlocksOf(s)', c \in BlocksOf(s)' :
                    b # c => blocks'[b].ObjectOffset # blocks'[c].ObjectOffset
              /\ \/ new = old
                 \/ \E t \in Threads :
                       /\ nev'[t] = nev[t] + 1
                       /\ new = Append(old, <<t, nev'[t]>>)
                       /\ streams'[s].kind # "thread"
                             => \E d \in DOMAIN dispatch :
                                   /\ StreamOf(d, streams'[s].kind) = s
                                   /\ Mutex(d, streams'[s].kind) = t
              /\ \A i \in DOMAIN new, j \in DOMAIN new :
                    (i < j /\ new[i][1] = new[j][1]) => new[i][2] < new[j][2]]_vars

\* both threads have pushed into the log stream, and a thread has an event in a
\* sealed block and a later one in the block after it
TotalOrderWithinStreamWitness ==
    \E s \in DOMAIN streams, b \in DOMAIN blocks, c \in DOMAIN blocks :
        /\ streams[s].kind = "log"
        /\ blocks[b].Stream = s
        /\ blocks[c].Stream = s
        /\ blocks[b].ObjectOffset < blocks[c].ObjectOffset
        /\ \E i \in DOMAIN blocks[b].Events, j \in DOMAIN blocks[c].Events :
              /\ blocks[b].Events[i][1] = blocks[c].Events[j][1]
              /\ blocks[b].Events[i][2] < blocks[c].Events[j][2]
        /\ \E i \in DOMAIN StreamEvents(s), j \in DOMAIN StreamEvents(s) :
              StreamEvents(s)[i][1] # StreamEvents(s)[j][1]


\* the thread streams thread t owns
ThreadStreamsOf(t) == {s \in DOMAIN streams : streams[s].kind = "thread" /\ streams[s].owner = t}

\* the places of the registries (Dispatch::ThreadStreams) that hold stream s
Registrations(s) ==
    UNION {{<<d, i>> : i \in {j \in DOMAIN dispatch[d].ThreadStreams : dispatch[d].ThreadStreams[j] = s}} :
           d \in DOMAIN dispatch}

\* the invocations of Sink::OnInitThreadStream for stream s
InitInvocations(s) ==
    UNION {{<<k, i>> : i \in {j \in DOMAIN sinks[k].calls :
                                  /\ sinks[k].calls[j].m = "OnInitThreadStream"
                                  /\ sinks[k].calls[j].a = s}} :
           k \in Sinks}

\* stream s holds, or has held, an event
HasEvents(s) == \E b \in BlocksOf(s) : blocks[b].NbEvents > 0

OneStreamOfThread(t) ==
    /\ Cardinality(ThreadStreamsOf(t)) <= 1
    /\ \A s \in ThreadStreamsOf(t) :
          /\ Cardinality(Registrations(s)) <= 1
          /\ Cardinality(InitInvocations(s)) <= 1
          /\ (HasEvents(s) \/ tls[t].Ptr # 0) =>
                /\ tls[t].Ptr = s
                /\ Cardinality(Registrations(s)) = 1
                /\ Cardinality(InitInvocations(s)) = 1
          /\ \A b \in BlocksOf(s) : \A i \in DOMAIN blocks[b].Events : blocks[b].Events[i][1] = t
    /\ tls[t].Ptr # 0 => tls[t].Ptr \in ThreadStreamsOf(t)

\* C18: one thread stream per thread.  A thread owns at most one ThreadStream; the
\* stream is in the registries at most once and Sink::OnInitThreadStream was invoked
\* for it at most once, and exactly once as soon as the thread's Ptr is set or the
\* stream holds an event; only its owner pushes into it; once set, the Ptr of
\* a thread never changes, so that every later call returns the same stream.
OneThreadStreamPerThread ==
    [][\A t \in Threads :
          /\ OneStreamOfThread(t)'
          /\ tls[t].Ptr # 0 => tls'[t].Ptr = tls[t].Ptr]_vars

\* both threads have created their stream and pushed span events into it, and the
\* registry holds the two streams
OneThreadStreamPerThreadWitness ==
    /\ \A t \in AppThreads :
          /\ Idle(t)
          /\ tls[t].Ptr # 0
          /\ blocks[streams[tls[t].Ptr].CurrentBlock].NbEvents >= 2
    /\ GDispatch # 0
    /\ Len(dispatch[GDispatch].ThreadStreams) = Cardinality(AppThreads)


\* the sweeps by a thread other than its owner that have called MarkFull on stream s,
\* each as the number of events that had been pushed into s by then
Sweeps(s) ==
    {called[w][i].b[s] : <<w, i>> \in {<<w, i>> \in Threads \X (1 .. (TickOps + 1)) :
                                          /\ w # streams[s].owner
                                          /\ i \in DOMAIN called[w]
                                          /\ called[w][i].pc = "MarkStreamFull"
                                          /\ s \in DOMAIN called[w][i].b}}

\* the block of stream s that holds the n-th event pushed into s
BlockOfEvent(s, n) ==
    CHOOSE b \in BlocksOf(s) : blocks[b].ObjectOffset < n /\ n <= blocks[b].ObjectOffset + blocks[b].NbEvents

\* thread t is inside an emission or a flush that has stream s at hand
Handling(t, s) == \E i \in DOMAIN stack[t] : stack[t][i].s = s

\* block b was handed to the sink
HandedToSink(b) ==
    \E k \in Sinks : \E i \in DOMAIN sinks[k].calls :
        sinks[k].calls[i].m = "OnProcessThreadBlock" /\ sinks[k].calls[i].a = b

\* C19: forced flush of thread streams.  When a sweep on another thread has called
\* MarkFull on a thread stream that held n events, whatever its owner was doing at
\* the time, and the owner has pushed the next event into the stream, then,
\* once the owner is through with that emission, the block that holds the event is no
\* longer the current block, was closed once and was handed to the sink.
ForcedFlush ==
    \A s \in DOMAIN streams :
        streams[s].kind = "thread" =>
            \A n \in Sweeps(s) :
                (NewOffset(s) > n /\ ~Handling(streams[s].owner, s))
                => /\ ~IsCurrent(BlockOfEvent(s, n + 1))
                   /\ blocks[BlockOfEvent(s, n + 1)].Closes = 1
                   /\ HandedToSink(BlockOfEvent(s, n + 1))


\* C20: Tick within the flush period.  A Tick starts a flush only when the time it
\* reads is at least LastFlush + period; a Tick that reads an earlier time changes
\* nothing but the time: it starts no flush, leaves LastFlush as it is and hands
\* no block to the sink, whatever the streams hold.
TickWithinPeriod ==
    [][\A w \in Threads \ AppThreads :
          opsLeft'[w] < opsLeft[w] =>
             \A k \in Sinks :
                Top(w).sk = k =>
                   IF clock' >= sinks[k].LastFlush + GetFlushPeriodSeconds
                   THEN Len(stack'[w]) = Len(stack[w]) + 1
                   ELSE /\ stack' = stack
                        /\ sinks' = sinks
                        /\ streams' = streams
                        /\ blocks' = blocks
                        /\ dispatch' = dispatch]_vars

\* Tick was called twice after Init within the period that began when the FlushMonitor
\* was constructed: the worker waits again and LastFlush is still the time of construction
TickWithinPeriodWitness ==
    \E w \in Threads \ AppThreads :
        /\ opsLeft[w] = 0
        /\ stack[w] # <<>>
        /\ Len(stack[w]) = 1
        /\ Initialized
        /\ sinks[Top(w).sk].LastFlush = 0
        /\ clock < GetFlushPeriodSeconds
        /\ clock > 1

\* the key-value content of the DefaultContext's map
MapContent == {TheContext.Slots[i] : i \in {j \in DOMAIN TheContext.Slots :
                                                 TheContext.Slots[j] # Hole}}

\* the elements of the store that hold the empty context
EmptySets == {i \in DOMAIN PropertySets : PropertySets[i] = <<>>}

\* C22: Default-context cache consistency.  Once the DefaultContext is constructed
\* and between its calls, the cached pointer is an element of the store whose pairs
\* are the pairs of the map; a Set of a key to the value it has changes neither the
\* map nor the pointer; the store holds one empty context at most, and the pointer
\* is that element after construction and after every Clear.
CacheConsistency ==
    /\ [](CurrentPropertySet # 0 =>
            /\ CurrentPropertySet \in DOMAIN PropertySets
            /\ {PropertySets[CurrentPropertySet][i] :
                    i \in DOMAIN PropertySets[CurrentPropertySet]} = MapContent
            /\ Len(PropertySets[CurrentPropertySet]) = Cardinality(MapContent)
            /\ Cardinality(EmptySets) = 1)
    /\ [][/\ \A Key \in Names, Value \in Names :
                SameValue(TheContext, Key, Value) /\ DefaultContextSet(Key, Value)
                   => UNCHANGED <<TheContext, CurrentPropertySet>>
          /\ DefaultContextNew \/ DefaultContextClear
                => CurrentPropertySet' \in EmptySets' /\ MapContent' = {}]_vars

\* the map was filled and cleared while the store holds four sets or more, and
\* the cached pointer is not the first element of the store
CacheConsistencyWitness ==
    /\ CurrentPropertySet > 1
    /\ TheContext.Slots = <<>>
    /\ Len(PropertySets) >= 4
    /\ \E i \in DOMAIN PropertySets : PropertySets[i] \notin QueueContexts

\* C28: Process registration comes first.  In the work queue of every sink each
\* insert_stream and each insert_block item comes after an insert_process item.
ProcessRegisteredFirst ==
    \A k \in Sinks :
        \A i \in DOMAIN sinks[k].Queue :
            sinks[k].Queue[i].item # "insert_process" =>
                \E j \in 1..(i - 1) : sinks[k].Queue[j].item = "insert_process"

\* the methods of the sink that register a stream, and those that take a block
InitStreamMethods == {"OnInitLogStream", "OnInitMetricStream", "OnInitThreadStream"}

ProcessBlockMethods == {ProcessBlockMethod(k) : k \in Kinds}

\* C27: Registration precedes data.  Every OnProcess*Block call a sink receives
\* comes after the OnInit*Stream call for the stream of the block, and every
\* insert_block item of its queue comes after the insert_stream item of that stream.
RegistrationPrecedesData ==
    \A k \in Sinks :
        /\ \A i \in DOMAIN sinks[k].calls :
              sinks[k].calls[i].m \in ProcessBlockMethods =>
                 \E j \in 1..(i - 1) :
                    /\ sinks[k].calls[j].m \in InitStreamMethods
                    /\ sinks[k].calls[j].a = blocks[sinks[k].calls[i].a].Stream
        /\ \A i \in DOMAIN sinks[k].Queue :
              sinks[k].Queue[i].item = "insert_block" =>
                 \E j \in 1..(i - 1) :
                    /\ sinks[k].Queue[j].item = "insert_stream"
                    /\ sinks[k].Queue[j].a = blocks[sinks[k].Queue[i].a].Stream

\* C26: No hand-off after the shutdown notification.  Among the calls a sink
\* receives, no OnProcess*Block and no OnInitThreadStream comes after an OnShutdown.
NoHandOffAfterShutdown ==
    \A k \in Sinks :
        \A i \in DOMAIN sinks[k].calls :
            sinks[k].calls[i].m = "OnShutdown" =>
                \A j \in (i + 1)..Len(sinks[k].calls) :
                    sinks[k].calls[j].m \notin ProcessBlockMethods \cup {"OnInitThreadStream"}

\* C24: Deadlock freedom with re-entrant telemetry.  No thread is about to lock
\* LogMutex or MetricMutex while it holds that mutex itself: these mutexes are not
\* recursive, and a thread that does so never returns.
NoSelfDeadlock ==
    \A t \in Threads :
        (stack[t] # <<>> /\ Top(t).pc \in {"QueueEvent", "FlushStream_lock"})
            => Mutex(Top(t).d, Top(t).k) # t

\* the places of QueueLogEntry, QueueMetric and Flush*StreamImpl between Lock()
\* and Unlock(), and the frames of thread t that are at one of them for mutex k
\* of dispatch d
LockedPcs == {"QueueEvent_push", "FlushImpl", "FlushImpl_body"}

LockedFrames(t, d, k) ==
    {i \in DOMAIN stack[t] :
        stack[t][i].pc \in LockedPcs /\ stack[t][i].d = d /\ stack[t][i].k = k}

\* C25: Mutex balance.  A thread holds LogMutex or MetricMutex exactly while one
\* of its frames is between the Lock() of QueueLogEntry, QueueMetric, FlushLogStream
\* or FlushMetricStream and the Unlock() of that call or of the Flush*StreamImpl it
\* entered: Flush*StreamImpl runs with the mutex held by the caller, and the mutex
\* is not held once the call has passed its Unlock() or has returned.  A mutex is
\* released only by a step of its holder, at one of the three Unlock() calls, and
\* is acquired only by the thread that steps.
MutexBalance ==
    /\ [](\A d \in DOMAIN dispatch : \A k \in {"log", "metric"} : \A t \in Threads :
            /\ Mutex(d, k) = t <=> LockedFrames(t, d, k) # {}
            /\ Cardinality(LockedFrames(t, d, k)) <= 1)
    /\ [][\A d \in DOMAIN dispatch : \A k \in {"log", "metric"} :
             Mutex(d, k)' # Mutex(d, k) =>
                IF Mutex(d, k) = NoThread
                THEN stack'[Mutex(d, k)'] # stack[Mutex(d, k)']
                ELSE /\ Mutex(d, k)' = NoThread
                     /\ Top(Mutex(d, k)).pc \in {"QueueEvent_push", "FlushImpl_body"}
                     /\ stack'[Mutex(d, k)] # stack[Mutex(d, k)]]_vars

\* both threads have flushed the log stream and have returned, one through the
\* rotation of a block and its hand-off, and no mutex is held
MutexBalanceWitness ==
    /\ \A t \in AppThreads :
          /\ Idle(t)
          /\ \E i \in DOMAIN called[t] : called[t][i].pc = "FlushStream"
    /\ Holders = {NoThread}
    /\ \E k \in Sinks : \E i \in DOMAIN sinks[k].calls :
          sinks[k].calls[i].m = "OnProcessLogBlock"

\* C29: QueueSize over-approximates the work queue.  In every state the counter of
\* a sink is at least the number of work items in its queue and is not negative,
\* so a sink that is not busy has an empty queue.
QueueSizeBounds ==
    \A k \in Sinks :
        /\ sinks[k].QueueSize >= Len(sinks[k].Queue)
        /\ sinks[k].QueueSize >= 0
        /\ ~IsBusy(k) => sinks[k].Queue = <<>>

\* the worker has executed five work items or more, the registration of its own
\* thread stream among them and not the last, and the sink is not busy any more
QueueSizeBoundsWitness ==
    \E k \in Sinks :
        /\ ~IsBusy(k)
        /\ Len(executed[k]) >= 5
        /\ tls[Worker(k)].Ptr # 0
        /\ \E i \in DOMAIN executed[k] :
              /\ i < Len(executed[k])
              /\ executed[k][i].item = "insert_stream"
              /\ executed[k][i].a = tls[Worker(k)].Ptr

\* the work item the worker holds between Queue.Dequeue and c()
InFlight(k) ==
    IF stack[Worker(k)] # <<>> /\ stack[Worker(k)][1].pc \in {"Run_dec", "Run_exec"}
    THEN <<stack[Worker(k)][1].b>>
    ELSE <<>>

\* the work items of a sink in the order they were enqueued
Handled(k) == executed[k] \o InFlight(k) \o sinks[k].Queue

IsPrefixOf(a, b) == Len(a) <= Len(b) /\ SubSeq(b, 1, Len(a)) = a

\* the gate and the order: while the authenticator is not ready the worker executes
\* no work item and removes none from the queue, which only grows at its end; the
\* executed items, the one in hand and the queued ones are, in this order, the items
\* in enqueue order; the worker leaves the drain loop only when the queue is empty
GateKeepsOrder ==
    [][\A k \in Sinks :
          /\ ~AuthReady[k] =>
                /\ executed'[k] = executed[k]
                /\ InFlight(k) = <<>> /\ InFlight(k)' = <<>>
                /\ IsPrefixOf(sinks[k].Queue, sinks'[k].Queue)
          /\ IsPrefixOf(Handled(k), Handled(k)')
          /\ IsPrefixOf(executed[k], executed'[k])
          /\ (At(Worker(k), "Run_dequeue") /\ At(Worker(k), "Run_shutdown")') =>
                sinks[k].Queue = <<>>]_vars

\* C30: authentication gate.  While the authenticator is not ready the worker
\* executes no work item and drops none, so that the items stay queued in enqueue
\* order, and once the authenticator is ready the worker executes all the queued
\* items first in, first out: the queue is eventually empty with the worker waiting.
AuthenticationGate ==
    /\ GateKeepsOrder
    /\ \A k \in Sinks :
          AuthReady[k] ~> (sinks[k].Queue = <<>> /\ At(Worker(k), "Run_wait"))

\* C21: drain on shutdown.  Once the worker of a sink has exited, the work items
\* that were enqueued when OnShutdown was invoked have been executed, whether the
\* authenticator is ready or not: here the registrations (OnStartup, OnInit*Stream)
\* that the thread calling OnShutdown had made itself before that call.
DrainOnShutdown ==
    \A k \in Sinks :
        sinks[k].Finished =>
            \A i \in DOMAIN sinks[k].calls :
                sinks[k].calls[i].m = "OnShutdown" =>
                    \A j \in 1 .. (i - 1) :
                        (/\ sinks[k].calls[j].t = sinks[k].calls[i].t
                         /\ sinks[k].calls[j].m \in InitStreamMethods \cup {"OnStartup"}) =>
                            \E e \in DOMAIN executed[k] :
                               /\ executed[k][e].a = sinks[k].calls[j].a
                               /\ executed[k][e].item =
                                     IF sinks[k].calls[j].m = "OnStartup"
                                     THEN "insert_process" ELSE "insert_stream"

\* C23: bounded retry.  A request is re-sent only by a completion that carries no
\* response while RemainingRetries > 0, and the clone runs with RemainingRetries
\* decremented by one; the count starting at RetryCount = 1, no request is attempted
\* more than twice and the second attempt is never retried; a completion with a
\* response whose code is not 200 is logged and re-sends nothing.
BoundedRetry ==
    /\ [](\A r \in DOMAIN http :
              /\ http[r].attempt <= RetryCount + 1
              /\ http[r].attempt + http[r].RemainingRetries = RetryCount + 1
              /\ http[r].attempt > 1 => http[r].status # "retried"
              /\ Cardinality({q \in DOMAIN http : http[q].first = http[r].first}) <= 2)
    /\ [][/\ \A r \in DOMAIN http : http'[r].item = http[r].item /\ http'[r].attempt = http[r].attempt
          /\ (Len(http') > Len(http) /\ http'[Len(http')].attempt > 1) =>
                /\ At(HttpThread, "OPRC")
                /\ Top(HttpThread).b[1] = 0
                /\ http[Top(HttpThread).d].RemainingRetries > 0
                /\ http'[Len(http')].RemainingRetries = http[Top(HttpThread).d].RemainingRetries - 1
                /\ http'[Len(http')].attempt = http[Top(HttpThread).d].attempt + 1
                /\ http'[Len(http')].item = http[Top(HttpThread).d].item
                /\ http'[Len(http')].first = http[Top(HttpThread).d].first
          /\ (At(HttpThread, "OPRC") /\ ~At(HttpThread, "OPRC")' /\ Top(HttpThread).b[1] \notin {0, 200}) =>
                /\ Len(http') = Len(http)
                /\ http'[Top(HttpThread).d].status = "warned"]_vars

\* a request was sent, completed without a response, was cloned and sent again, and
\* its second attempt, completed without success, was logged and dropped
BoundedRetryWitness ==
    \E r \in DOMAIN http :
        /\ http[r].attempt = 2
        /\ http[r].RemainingRetries = 0
        /\ http[r].status = "warned"
        /\ \E q \in DOMAIN http :
              q < r /\ http[q].first = http[r].first /\ http[q].status = "retried"

\* C32: at most one shutdown notification.  However the Dispatch::Shutdown calls
\* of different threads interleave, a sink receives OnShutdown at most once for
\* each Init that started it.
AtMostOneShutdownNotification ==
    Cardinality(Invocations("OnShutdown")) <= Cardinality(Invocations("OnStartup"))

\* thread t is creating its stream: ThisStreamBeingInit is set and Ptr is not yet
BeingInit(t) == tls[t].ThisStreamBeingInit /\ tls[t].Ptr = 0

\* C33: re-entrancy guard on thread-stream creation.  A span event emitted on a
\* thread while the stream of that thread is being created returns at once: no
\* event is pushed, no stream or block is created, no registry and no sink changes;
\* and a step that pushes a span event of a thread is taken with the thread-local
\* pointer set, into the current block of the stream it points to.
ReentrancyGuard ==
    [][\A t \in Threads :
          /\ (At(t, "QueueThreadEvent") /\ BeingInit(t) /\ stack'[t] # stack[t]) =>
                /\ Returns(t)
                /\ UNCHANGED <<GDispatch, dispatch, streams, blocks, sinks, tls, nev>>
          /\ BeingInit(t) => ThreadStreamsOf(t)' = ThreadStreamsOf(t)
          /\ \A b \in DOMAIN blocks :
                (/\ streams[blocks[b].Stream].kind = "thread"
                 /\ streams[blocks[b].Stream].owner = t
                 /\ blocks'[b].NbEvents > blocks[b].NbEvents) =>
                    /\ tls[t].Ptr = blocks[b].Stream
                    /\ streams[tls[t].Ptr].CurrentBlock = b]_vars

\* a thread is publishing its stream, the metric that the sink records for it has
\* filled the metric block, and the span of the flush has returned: the thread has
\* one stream, which holds no event
ReentrancyGuardWitness ==
    \E t \in Threads :
        /\ BeingInit(t)
        /\ At(t, "FlushImpl_body")
        /\ \E i \in DOMAIN stack[t] : stack[t][i].pc = "GCTS_assign"
        /\ Cardinality(ThreadStreamsOf(t)) = 1
        /\ \A s \in ThreadStreamsOf(t) : ~HasEvents(s)

\* the blocks that were handed to sink k and that its sampling controller refused
Dropped(k) ==
    {b \in DOMAIN blocks :
        /\ ~sinks[k].Sampling[streams[blocks[b].Stream].kind]
        /\ \E i \in DOMAIN sinks[k].calls :
              sinks[k].calls[i].m \in ProcessBlockMethods /\ sinks[k].calls[i].a = b}

\* the calls of sink k that increment QueueSize and enqueue a work item: the
\* registrations and the hand-offs of blocks that are sampled
Producers(k) ==
    {i \in DOMAIN sinks[k].calls :
        \/ sinks[k].calls[i].m \in InitStreamMethods \cup {"OnStartup"}
        \/ /\ sinks[k].calls[i].m \in ProcessBlockMethods
           /\ sinks[k].calls[i].a \notin Dropped(k)}

\* C34: sampling drop.  A block that the sampling controller refuses gets no work
\* item and adds nothing to QueueSize, and the step that takes the answer changes
\* neither; the stream has rotated all the same: the block is sealed, every
\* later block of its stream has an object offset that includes its events, and
\* its events are stored in no other block.
SamplingDrop ==
    /\ [](\A k \in Sinks :
            /\ sinks[k].QueueSize + Len(executed[k]) + Len(InFlight(k)) <= Cardinality(Producers(k))
            /\ \A b \in Dropped(k) :
                  /\ \A i \in DOMAIN Handled(k) :
                        ~(Handled(k)[i].item = "insert_block" /\ Handled(k)[i].a = b)
                  /\ ~IsCurrent(b)
                  /\ \A c \in BlocksOf(blocks[b].Stream) :
                        c > b => blocks[c].ObjectOffset >= blocks[b].ObjectOffset + blocks[b].NbEvents
                  /\ \A i \in DOMAIN blocks[b].Events :
                        Occurrences(blocks[b].Events[i]) = {<<b, i>>})
    /\ [][\A t \in Threads :
            (/\ At(t, "OPB_sample")
             /\ ~sinks[Top(t).sk].Sampling[Top(t).k]
             /\ stack'[t] # stack[t]) =>
                /\ sinks' = sinks
                /\ stack'[t][Len(stack[t])].pc = "OPB_end"]_vars

\* a metric block was refused and the metric stream holds events in a later block,
\* while a log block was sampled and has its work item; no call is in progress
SamplingDropWitness ==
    \E k \in Sinks :
        /\ \A t \in AppThreads : Idle(t)
        /\ \E b \in Dropped(k) :
              /\ streams[blocks[b].Stream].kind = "metric"
              /\ blocks[b].NbEvents > 0
              /\ \E c \in BlocksOf(blocks[b].Stream) :
                    c > b /\ IsCurrent(c) /\ blocks[c].NbEvents > 0
        /\ \E i \in DOMAIN sinks[k].Queue : sinks[k].Queue[i].item = "insert_block"
        /\ sinks[k].QueueSize = Cardinality(Producers(k))

\* the last OnStartup a sink received: the start of the current dispatch
LastStartup(k) ==
    LET S == {i \in DOMAIN sinks[k].calls : sinks[k].calls[i].m = "OnStartup"}
    IN IF S = {} THEN 0 ELSE CHOOSE i \in S : \A j \in S : j <= i

\* C35: registry membership of active thread streams.  While a dispatch is
\* installed and Init has returned, the stream that GetCurrentThreadStream returns for a thread (its
\* thread-local pointer) is in the thread-stream registry of that dispatch and was
\* announced by OnInitThreadStream to the sink of that dispatch since it started,
\* for any sequence of Init, Shutdown and Init again.
RegistryMembership ==
    Initialized =>
        \A t \in Threads :
            tls[t].Ptr # 0 =>
                /\ \E i \in DOMAIN dispatch[GDispatch].ThreadStreams :
                      dispatch[GDispatch].ThreadStreams[i] = tls[t].Ptr
                /\ \E i \in DOMAIN sinks[dispatch[GDispatch].Sink].calls :
                      /\ i > LastStartup(dispatch[GDispatch].Sink)
                      /\ sinks[dispatch[GDispatch].Sink].calls[i].m = "OnInitThreadStream"
                      /\ sinks[dispatch[GDispatch].Sink].calls[i].a = tls[t].Ptr

\* C36: the blocks of a stream tile time.  A block that replaced another begins at
\* the DualTime value its predecessor was closed with, and a sealed block does not
\* end before it begins: no gap and no overlap between consecutive blocks.
BlocksTileTime ==
    \A b \in DOMAIN blocks :
        /\ Previous(b) # 0 => blocks[b].Begin = blocks[Previous(b)].End
        /\ ~IsCurrent(b) => blocks[b].Begin <= blocks[b].End

\* the log stream and a thread stream were rotated at different times, and a
\* stream is at its third block
BlocksTileTimeWitness ==
    /\ \E b, c \in DOMAIN blocks :
          /\ Previous(b) # 0 /\ streams[blocks[b].Stream].kind = "log"
          /\ Previous(c) # 0 /\ streams[blocks[c].Stream].kind = "thread"
          /\ blocks[b].Begin # blocks[c].Begin
          /\ blocks[Previous(c)].NbEvents > 0
    /\ \E b \in DOMAIN blocks :
          /\ Previous(b) # 0 /\ Previous(Previous(b)) # 0
          /\ blocks[Previous(b)].Begin < blocks[b].Begin

\* C38: the queue is append-only with an exact counter. Every Push leaves the bytes
\* already in the buffer unchanged (the buffer before is a prefix of the buffer
\* after), makes the buffer strictly longer and adds exactly one to NbEvents; in
\* every state NbEvents is the number of records ForEach visits, and the queue is
\* empty (NbEvents = 0) iff no event was pushed into it.
QueueAppendOnly ==
    /\ [](\A k \in Kinds :
            /\ queues[k].NbEvents = Len(ForEach(k))
            /\ queues[k].NbEvents = 0 <=> pushed[k] = <<>>)
    /\ [][\A k \in Kinds :
            /\ IsPrefixOf(queues[k].Buffer, queues'[k].Buffer)
            /\ pushed'[k] # pushed[k] =>
                   /\ Len(queues'[k].Buffer) > Len(queues[k].Buffer)
                   /\ queues'[k].NbEvents = queues[k].NbEvents + 1
            /\ pushed'[k] = pushed[k] => queues'[k] = queues[k]]_vars

QueueAppendOnlyWitness ==
    /\ Len(pushed["log"]) = 2
    /\ pushed["log"][1][1] = "TaggedLogString"
    /\ pushed["log"][2][1] = "StaticStringRef"
    /\ queues["log"].NbEvents = 2
    /\ Len(ForEach("log")) = 2
    /\ Len(pushed["metric"]) = 1
    /\ queues["thread"].NbEvents = 0
    /\ queues["thread"].Buffer = <<>>

\* C39: replay terminates on a record boundary. ForEach's pass from offset 0 visits
\* as many records as were pushed and ends with the cursor equal to the size of
\* the buffer; the i-th record takes 1 byte of type index, 4 bytes of size when
\* the type is of dynamic size, and the bytes Push wrote for the i-th event, which
\* for a type of dynamic size is the value stored in the size prefix; the type
\* index read is always one of the queue's types.
ReplayEndsOnBoundary ==
    \A k \in Kinds : \A c \in {CursorsFrom(k, queues[k].Buffer, 0)} :
        /\ Len(c) = Len(pushed[k]) + 1
        /\ c[1] = 0
        /\ c[Len(c)] = Len(queues[k].Buffer)
        /\ \A i \in DOMAIN pushed[k] :
               /\ ReadPOD(queues[k].Buffer, c[i], 1) + 1 \in DOMAIN QueueTypes(k)
               /\ c[i + 1] - c[i] = 1 + (IF IsSizeStatic(pushed[k][i][1]) THEN 0 ELSE 4)
                                      + Len(Write(pushed[k][i]))
               /\ ~IsSizeStatic(pushed[k][i][1]) =>
                      ReadPOD(queues[k].Buffer, c[i] + 1, 4) = Len(Write(pushed[k][i]))

ReplayEndsOnBoundaryWitness ==
    /\ Len(pushed["log"]) = 3
    /\ pushed["log"][1][1] = "TaggedLogInteropEvent"
    /\ Len(Member(pushed["log"][1], "Msg")[2]) > 0
    /\ pushed["log"][2][1] = "StaticStringRef"
    /\ pushed["log"][3][1] = "TaggedLogString"
    /\ \A c \in {CursorsFrom("log", queues["log"].Buffer, 0)} :
           /\ Len(c) = 4
           /\ c[4] = Len(queues["log"].Buffer)
           /\ c[3] - c[2] = 17

SigningFailureContained ==
    /\ [](\A r \in DOMAIN http :
              http[r].status = "unsigned" =>
                  /\ http[r].attempt = 1
                  /\ {q \in DOMAIN http : http[q].first = http[r].first} = {r})
    /\ [][/\ \A r \in DOMAIN http : http[r].status = "unsigned" => http'[r] = http[r]
          /\ (Len(http') > Len(http) /\ http'[Len(http')].status = "unsigned") =>
                /\ Len(http') = Len(http) + 1
                /\ sinks' = sinks
                /\ executed' = executed
                /\ \E k \in Sinks :
                      /\ At(Worker(k), "Send")
                      /\ Len(stack'[Worker(k)]) = Len(stack[Worker(k)]) + 1
                      /\ stack'[Worker(k)][Len(stack[Worker(k)])].pc = "Run_dequeue"
                      /\ http'[Len(http')].item = Top(Worker(k)).b]_vars

SigningFailureContainedWitness ==
    \E r, q \in DOMAIN http :
        /\ http[r].status = "unsigned"
        /\ q > r
        /\ http[q].first = q
        /\ http[q].item # http[r].item
        /\ http[q].status = "sent"
        /\ \E k \in Sinks : \E i, j \in DOMAIN executed[k] :
              i < j /\ executed[k][i] = http[r].item /\ executed[k][j] = http[q].item

\* the worker of sink k stands before a Lock() on a mutex it holds itself
WorkerBlocked(k) ==
    /\ stack[Worker(k)] # <<>>
    /\ Top(Worker(k)).pc \in {"QueueEvent", "FlushStream_lock"}
    /\ Mutex(Top(Worker(k)).d, Top(Worker(k)).k) = Worker(k)

\* once RequestShutdown is set the worker starts no further wait: it leaves the
\* loop at its next test of the flag, after at most one further pass
NoWaitAfterRequest ==
    [][\A k \in Sinks :
          (sinks[k].RequestShutdown /\ ~At(Worker(k), "Run_wait")) => ~At(Worker(k), "Run_wait")']_vars

\* C31: worker termination. Once OnShutdown has set RequestShutdown, the worker
\* starts no further wait and, under fair scheduling, its Run loop exits, wherever
\* in the loop it was when the flag was set; hence the WaitForCompletion of
\* OnShutdown eventually returns.
WorkerTermination ==
    /\ NoWaitAfterRequest
    /\ \A k \in Sinks : sinks[k].RequestShutdown ~> sinks[k].Finished
    /\ \A t \in AppThreads : At(t, "OnShutdown_wait") ~> ~At(t, "OnShutdown_wait")

\* the same, unless the worker stands before a Lock() on a mutex it holds
WorkerTerminationUnlessBlocked ==
    /\ NoWaitAfterRequest
    /\ \A k \in Sinks : sinks[k].RequestShutdown ~> (sinks[k].Finished \/ WorkerBlocked(k))
    /\ \A t \in AppThreads :
          At(t, "OnShutdown_wait") ~> (~At(t, "OnShutdown_wait") \/ \E k \in Sinks : WorkerBlocked(k))


====
